---- MODULE Spec2Model ----
(***************************************************************************)
(* A model of pip_requirements.py: the requirements-file parser.           *)
(*                                                                         *)
(* Text is modelled as a sequence of atoms.  The structural characters the *)
(* code looks at are atoms of their own: the space " ", the hash "#", the  *)
(* backslash "\\" and the double quote.  A run of other characters (a      *)
(* package name, an option name, an option value) is one word atom; the    *)
(* only thing the code asks about the inside of a word is whether it       *)
(* starts with "-", which DashWords answers.                                *)
(***************************************************************************)
EXTENDS Integers, Sequences, FiniteSets, TLC

\* Bounds of the model.
MaxLines == 2        \* physical lines of the root requirements file
MaxRuns == 2         \* RequirementsFile objects built in one process
MaxItems == 2        \* comma-separated items of one --no-binary/--only-binary value
MaxUpdates == 3      \* format-control updates applied in a row
RecursionLimit == 4  \* nested generators the interpreter's recursion limit allows
MaxPreLines == 2     \* physical lines the preprocessor is called with on its own
MaxHashes == 2       \* --hash options of one line
MaxCalls == 2        \* hashes() calls on one requirement
MaxChunks == 2       \* chunks a verified stream is cut into
MaxPairs == 2        \* key=value parts of the query or the fragment of a URL
MaxSegments == 6     \* "-"-separated segments of a wheel file name
MaxTags == 3         \* tags of a list of supported tags

(***************************************************************************)
(* Atoms and strings                                                       *)
(***************************************************************************)
SP == " "
HASH == "#"
BS == "\\"
QUOTE == "\""

\* Op applied to the value of e: e is evaluated once, as an argument of a
\* Python call is, however often Op uses it.
Apply(Op(_), e) == CHOOSE r \in {Op(v) : v \in {e}} : TRUE

RECURSIVE Concat(_)
\* "".join(pieces)
Concat(pieces) ==
  IF pieces = <<>> THEN <<>>
  ELSE Head(pieces) \o Apply(LAMBDA rest : Concat(rest), Tail(pieces))

RECURSIVE lstrip(_, _)
\* str.lstrip(chars)
lstrip(s, chars) ==
  IF s # <<>> /\ Head(s) \in chars
  THEN Apply(LAMBDA rest : lstrip(rest, chars), Tail(s))
  ELSE s

RECURSIVE rstrip(_, _)
\* str.rstrip(chars)
rstrip(s, chars) ==
  IF s # <<>> /\ s[Len(s)] \in chars
  THEN Apply(LAMBDA rest : rstrip(rest, chars), SubSeq(s, 1, Len(s) - 1))
  ELSE s

\* str.strip(chars); str.strip() is strip(s, {SP})
strip(s, chars) == Apply(LAMBDA left : rstrip(left, chars), lstrip(s, chars))

\* line.endswith("\\")
endswith_backslash(line) == line # <<>> /\ line[Len(line)] = BS

RECURSIVE split(_, _)
\* str.split(sep) for a one-character separator: the pieces between the
\* separators, empty pieces included
split(s, sep) ==
  IF \A i \in 1..Len(s) : s[i] # sep THEN <<s>>
  ELSE LET k == CHOOSE i \in 1..Len(s) : s[i] = sep /\ \A j \in 1..(i - 1) : s[j] # sep
       IN <<SubSeq(s, 1, k - 1)>>
          \o Apply(LAMBDA rest : split(rest, sep), SubSeq(s, k + 1, Len(s)))

RECURSIVE join(_, _)
\* sep.join(pieces)
join(pieces, sep) ==
  IF pieces = <<>> THEN <<>>
  ELSE IF Len(pieces) = 1 THEN pieces[1]
  ELSE pieces[1] \o <<sep>> \o Apply(LAMBDA rest : join(rest, sep), Tail(pieces))

(***************************************************************************)
(* Line preprocessor: join_lines, split_comments, preprocess                *)
(***************************************************************************)
\* The positions q of a "#" that COMMENT_RE = (^|\s+)(#.*)$ can take as the
\* start of its second group: a "#" at the start of the string or right
\* after whitespace.
CommentStarts(line) ==
  {q \in 1..Len(line) : line[q] = HASH /\ (q = 1 \/ line[q - 1] = SP)}

\* COMMENT_RE.match(line): the pattern anchored at position 0, so the line is
\* optional whitespace followed by "#".
COMMENT_RE_match(line) ==
  LET s == lstrip(line, {SP}) IN s # <<>> /\ s[1] = HASH

\* COMMENT_RE without its first group: a comment starts at any "#"
COMMENT_RE_split_any_hash(line) ==
  IF \A q \in 1..Len(line) : line[q] # HASH THEN <<line>>
  ELSE LET q == CHOOSE x \in 1..Len(line) :
                  line[x] = HASH /\ \A y \in 1..(x - 1) : line[y] # HASH
       IN <<SubSeq(line, 1, q - 1), <<>>, SubSeq(line, q, Len(line)), <<>> >>

\* COMMENT_RE.split(line): without a match the line itself; with a match (the
\* leftmost one) the text before it, the two groups and the empty rest.
COMMENT_RE_split(line) ==
  IF CommentStarts(line) = {} THEN <<line>>
  ELSE LET q == CHOOSE x \in CommentStarts(line) : \A y \in CommentStarts(line) : x <= y
           before == rstrip(SubSeq(line, 1, q - 1), {SP})
       IN <<before,
            SubSeq(line, Len(before) + 1, q - 1),
            SubSeq(line, q, Len(line)),
            <<>> >>

RECURSIVE join_lines_from_last_number(_, _, _, _)
\* join_lines numbering a joined line by its last physical line
join_lines_from_last_number(lines, i, primary_line_number, new_line) ==
  IF i > Len(lines)
  THEN IF new_line # <<>>
       THEN << [line_number |-> Len(lines), line |-> Concat(new_line)] >>
       ELSE <<>>
  ELSE LET line == lines[i] IN
    IF ~endswith_backslash(line) \/ COMMENT_RE_match(line)
    THEN LET line2 == IF COMMENT_RE_match(line) THEN <<SP>> \o line ELSE line IN
         IF new_line # <<>>
         THEN << [line_number |-> i,
                  line |-> Concat(Append(new_line, line2))] >>
              \o Apply(LAMBDA n : join_lines_from_last_number(lines, n, primary_line_number, <<>>),
                       i + 1)
         ELSE << [line_number |-> i, line |-> line2] >>
              \o Apply(LAMBDA n : join_lines_from_last_number(lines, n, primary_line_number, <<>>),
                       i + 1)
    ELSE Apply(LAMBDA a : join_lines_from_last_number(lines, a.i, a.primary_line_number, a.new_line),
               [i |-> i + 1,
                primary_line_number |-> IF new_line = <<>> THEN i ELSE primary_line_number,
                new_line |-> Append(new_line, strip(line, {BS}))])

RECURSIVE join_lines_from(_, _, _, _)
\* The loop of join_lines from physical line i on; new_line is the list of
\* pieces collected so far and primary_line_number the number of the first.
join_lines_from(lines, i, primary_line_number, new_line) ==
  IF i > Len(lines)
  THEN IF new_line # <<>>
       THEN << [line_number |-> primary_line_number, line |-> Concat(new_line)] >>
       ELSE <<>>
  ELSE LET line == lines[i] IN
    IF ~endswith_backslash(line) \/ COMMENT_RE_match(line)
    THEN LET line2 == IF COMMENT_RE_match(line) THEN <<SP>> \o line ELSE line IN
         IF new_line # <<>>
         THEN << [line_number |-> primary_line_number,
                  line |-> Concat(Append(new_line, line2))] >>
              \o Apply(LAMBDA n : join_lines_from(lines, n, primary_line_number, <<>>),
                       i + 1)
         ELSE << [line_number |-> i, line |-> line2] >>
              \o Apply(LAMBDA n : join_lines_from(lines, n, primary_line_number, <<>>),
                       i + 1)
    ELSE Apply(LAMBDA a : join_lines_from(lines, a.i, a.primary_line_number, a.new_line),
               [i |-> i + 1,
                primary_line_number |-> IF new_line = <<>> THEN i ELSE primary_line_number,
                new_line |-> Append(new_line, strip(line, {BS}))])

\* join_lines over enumerate(lines, start=1)
join_lines(lines) == join_lines_from(lines, 1, 0, <<>>)

\* [l.strip() for l in COMMENT_RE.split(line) if l.strip()]
comment_parts(line) ==
  LET stripped == [k \in 1..Len(COMMENT_RE_split(line)) |-> strip(COMMENT_RE_split(line)[k], {SP})]
  IN SelectSeq(stripped, LAMBDA p : p # <<>>)

\* split_comments losing the comment of a line that has text too
split_comments_line_text_only(numbered) ==
  LET parts == comment_parts(numbered.line)
      n == numbered.line_number
  IN IF parts = <<>> THEN <<>>
     ELSE IF parts[1][1] = HASH
     THEN << [type |-> "CommentLine", line_number |-> n, line |-> parts[1]] >>
     ELSE << [type |-> "TextLine", line_number |-> n, line |-> parts[1]] >>

\* The records split_comments yields for one logical line.
split_comments_line(numbered) ==
  LET parts == comment_parts(numbered.line)
      n == numbered.line_number
  IN IF Len(parts) = 1
     THEN IF parts[1][1] = HASH
          THEN << [type |-> "CommentLine", line_number |-> n, line |-> parts[1]] >>
          ELSE << [type |-> "TextLine", line_number |-> n, line |-> parts[1]] >>
     ELSE IF Len(parts) = 2
     THEN << [type |-> "TextLine", line_number |-> n, line |-> parts[1]],
             [type |-> "CommentLine", line_number |-> n, line |-> parts[2]] >>
     ELSE IF parts # <<>>
     THEN << [type |-> "Exception", line_number |-> n, line |-> numbered.line] >>
     ELSE <<>>

RECURSIVE split_comments(_)
split_comments(lines_enum) ==
  IF lines_enum = <<>> THEN <<>>
  ELSE Apply(LAMBDA numbered : split_comments_line(numbered), Head(lines_enum))
       \o Apply(LAMBDA rest : split_comments(rest), Tail(lines_enum))

\* preprocess(content): content.splitlines() is the sequence of physical lines
preprocess(content) ==
  Apply(LAMBDA lines_enum : split_comments(lines_enum), join_lines(content))

(***************************************************************************)
(* Per-line option decoding: break_args_options, shlex.split, optparse     *)
(***************************************************************************)
\* The words of the model that start with "-".
DashWords ==
  {"-i", "--index-url", "--extra-index-url", "--no-index", "-c", "--constraint",
   "-r", "--requirement", "-e", "--editable", "-f", "--find-links",
   "--no-binary", "--only-binary", "--prefer-binary", "--require-hashes",
   "--pre", "--trusted-host", "--use-feature", "--install-option",
   "--global-option", "--hash", "--bogus", "-x"}

\* token.startswith("-")
startswith_dash(token) == token # <<>> /\ token[1] \in DashWords

RECURSIVE leading_args(_)
\* the tokens break_args_options collects before the first "-" token
leading_args(tokens) ==
  IF tokens = <<>> \/ startswith_dash(tokens[1]) THEN <<>>
  ELSE <<tokens[1]>> \o Apply(LAMBDA rest : leading_args(rest), Tail(tokens))

\* break_args_options(line): the argument span and the option span
break_args_options(line) ==
  Apply(LAMBDA tokens :
          Apply(LAMBDA args :
                  [args_str |-> join(args, SP),
                   options_str |-> join(SubSeq(tokens, Len(args) + 1, Len(tokens)), SP)],
                leading_args(tokens)),
        split(line, SP))

\* shlex.split(options_str) on text without balanced quotes and escapes:
\* whitespace-separated tokens, or "No closing quotation" when a quote is
\* left open.
shlex_split(s) ==
  IF Cardinality({i \in 1..Len(s) : s[i] = QUOTE}) % 2 = 1
  THEN [error |-> "No closing quotation", tokens |-> <<>>]
  ELSE [error |-> "", tokens |-> SelectSeq(split(s, SP), LAMBDA t : t # <<>>)]

\* The option schema: SUPPORTED_OPTIONS + SUPPORTED_OPTIONS_REQ.
Opt(dest, action, nargs) == [dest |-> dest, action |-> action, nargs |-> nargs]

index_url == Opt("index_url", "store", 1)
extra_index_url == Opt("extra_index_urls", "append", 1)
no_index == Opt("no_index", "store_true", 0)
constraints == Opt("constraints", "append", 1)
requirements == Opt("requirements", "append", 1)
editable == Opt("editables", "append", 1)
find_links == Opt("find_links", "append", 1)
no_binary == Opt("format_control", "_handle_no_binary", 1)
only_binary == Opt("format_control", "_handle_only_binary", 1)
prefer_binary == Opt("prefer_binary", "store_true", 0)
require_hashes == Opt("require_hashes", "store_true", 0)
pre == Opt("pre", "store_true", 0)
trusted_host == Opt("trusted_hosts", "append", 1)
use_new_feature == Opt("features_enabled", "append", 1)
install_options == Opt("install_options", "append", 1)
global_options == Opt("global_options", "append", 1)
cmdoptions_hash == Opt("hashes", "_handle_merge_hash", 1)

\* choices of --use-feature
FeatureChoices == {"2020-resolver", "fast-deps", "in-tree-build"}

\* the option strings the parser of build_parser knows
build_parser ==
  [s \in {"-i", "--index-url", "--extra-index-url", "--no-index", "-c",
          "--constraint", "-r", "--requirement", "-e", "--editable", "-f",
          "--find-links", "--no-binary", "--only-binary", "--prefer-binary",
          "--require-hashes", "--pre", "--trusted-host", "--use-feature",
          "--install-option", "--global-option", "--hash"} |->
     CASE s \in {"-i", "--index-url"} -> index_url
       [] s = "--extra-index-url" -> extra_index_url
       [] s = "--no-index" -> no_index
       [] s \in {"-c", "--constraint"} -> constraints
       [] s \in {"-r", "--requirement"} -> requirements
       [] s \in {"-e", "--editable"} -> editable
       [] s \in {"-f", "--find-links"} -> find_links
       [] s = "--no-binary" -> no_binary
       [] s = "--only-binary" -> only_binary
       [] s = "--prefer-binary" -> prefer_binary
       [] s = "--require-hashes" -> require_hashes
       [] s = "--pre" -> pre
       [] s = "--trusted-host" -> trusted_host
       [] s = "--use-feature" -> use_new_feature
       [] s = "--install-option" -> install_options
       [] s = "--global-option" -> global_options
       [] s = "--hash" -> cmdoptions_hash]

(***************************************************************************)
(* FormatControl                                                           *)
(***************************************************************************)
Range(seq) == {seq[i] : i \in DOMAIN seq}

\* packaging.utils.canonicalize_name on the names of the model: runs of
\* "-", "_", "." become "-" and the name is lower-cased.
canonicalize_name(name) ==
  CASE name = "Foo" -> "foo"
    [] name = ":ALL:" -> ":all:"
    [] name = "b_r" -> "b-r"
    [] OTHER -> name

\* value.split(","): a value is kept as the list of its comma-separated items
\* (one item for a value without comma); value.startswith("-") looks at the
\* first item.
comma_split(word) ==
  CASE word = ":none:,foo" -> <<":none:", "foo">>
    [] word = ":all:,:none:,foo" -> <<":all:", ":none:", "foo">>
    [] OTHER -> <<word>>

RECURSIVE while_all_keeps_other(_, _, _)
\* while_all without other.clear()
while_all_keeps_other(new, target, other) ==
  IF ":all:" \in Range(new)
  THEN LET k == CHOOSE i \in 1..Len(new) :
                  new[i] = ":all:" /\ \A j \in 1..(i - 1) : new[j] # ":all:"
           rest == SubSeq(new, k + 1, Len(new))
       IN IF ":none:" \notin Range(rest)
          THEN [returned |-> TRUE, new |-> rest, target |-> {":all:"}, other |-> other]
          ELSE Apply(LAMBDA r : while_all_keeps_other(r, {":all:"}, other), rest)
  ELSE [returned |-> FALSE, new |-> new, target |-> target, other |-> other]

RECURSIVE while_all(_, _, _)
\* the loop "while ':all:' in new" of handle_mutual_excludes
while_all(new, target, other) ==
  IF ":all:" \in Range(new)
  THEN LET k == CHOOSE i \in 1..Len(new) :
                  new[i] = ":all:" /\ \A j \in 1..(i - 1) : new[j] # ":all:"
           rest == SubSeq(new, k + 1, Len(new))
       IN IF ":none:" \notin Range(rest)
          THEN [returned |-> TRUE, new |-> rest, target |-> {":all:"}, other |-> {}]
          ELSE Apply(LAMBDA r : while_all(r, {":all:"}, {}), rest)
  ELSE [returned |-> FALSE, new |-> new, target |-> target, other |-> other]

RECURSIVE for_names_no_discard(_, _, _)
\* for_names without other.discard(name)
for_names_no_discard(new, target, other) ==
  IF new = <<>> THEN [target |-> target, other |-> other]
  ELSE IF new[1] = ":none:"
  THEN Apply(LAMBDA a : for_names_no_discard(a.new, {}, a.other),
             [new |-> Tail(new), other |-> other])
  ELSE LET name == canonicalize_name(new[1])
       IN Apply(LAMBDA a : for_names_no_discard(a.new, a.target, a.other),
                [new |-> Tail(new), target |-> target \cup {name}, other |-> other])

RECURSIVE for_names(_, _, _)
\* the loop "for name in new" of handle_mutual_excludes
for_names(new, target, other) ==
  IF new = <<>> THEN [target |-> target, other |-> other]
  ELSE IF new[1] = ":none:"
  THEN Apply(LAMBDA a : for_names(a.new, {}, a.other),
             [new |-> Tail(new), other |-> other])
  ELSE LET name == canonicalize_name(new[1])
       IN Apply(LAMBDA a : for_names(a.new, a.target, a.other),
                [new |-> Tail(new), target |-> target \cup {name},
                 other |-> other \ {name}])

\* FormatControl.handle_mutual_excludes(value, target, other), value given as
\* value.split(","); raised is the CommandError of a value starting with "-"
handle_mutual_excludes(value, target, other) ==
  IF value[1] \in DashWords
  THEN [raised |-> TRUE, target |-> target, other |-> other]
  ELSE LET w == while_all(value, target, other)
       IN IF w.returned
          THEN [raised |-> FALSE, target |-> w.target, other |-> w.other]
          ELSE LET f == for_names(w.new, w.target, w.other)
               IN [raised |-> FALSE, target |-> f.target, other |-> f.other]

\* FormatControl()
FormatControl(no, only) == [no_binary |-> no, only_binary |-> only]

\* _handle_no_binary: the update with target no_binary, other only_binary
_handle_no_binary(value, existing) ==
  LET r == handle_mutual_excludes(value, existing.no_binary, existing.only_binary)
  IN [raised |-> r.raised, fc |-> FormatControl(r.target, r.other)]

\* _handle_only_binary: the update with target only_binary, other no_binary
_handle_only_binary(value, existing) ==
  LET r == handle_mutual_excludes(value, existing.only_binary, existing.no_binary)
  IN [raised |-> r.raised, fc |-> FormatControl(r.other, r.target)]

\* FormatControl.disallow_binaries
disallow_binaries(existing) == _handle_no_binary(<<":all:">>, existing).fc

(***************************************************************************)
(* optparse: defaults, take_action, parse_args                             *)
(***************************************************************************)
EmptyHashes == [a \in {} |-> <<>>]

\* parser.get_default_values() as parse_line adjusts it.  Every option
\* factory that is a function builds its default list anew for each parser;
\* use_new_feature is a partial whose default=[] is one list object made when
\* the module is loaded, so features_enabled starts as that shared list.
\* format_control is the finder's object and is threaded separately.
get_default_values(shared_features) ==
  [index_url |-> <<>>, extra_index_urls |-> <<>>, no_index |-> FALSE,
   constraints |-> <<>>, requirements |-> <<>>, editables |-> <<>>,
   find_links |-> <<>>, prefer_binary |-> FALSE, require_hashes |-> FALSE,
   pre |-> FALSE, trusted_hosts |-> <<>>, features_enabled |-> shared_features,
   install_options |-> <<>>, global_options |-> <<>>, hashes |-> EmptyHashes]

\* value.split(":", 1) of _handle_merge_hash; a value without ":" gives the
\* digest None
hash_split(word) ==
  CASE word = "sha256:d1" -> [algo |-> "sha256", digest |-> "d1"]
    [] word = "sha256:d2" -> [algo |-> "sha256", digest |-> "d2"]
    [] word = "sha384:d1" -> [algo |-> "sha384", digest |-> "d1"]
    [] OTHER -> [algo |-> word, digest |-> "None"]

\* _handle_merge_hash: hashes.setdefault(algo, []).append(digest)
_handle_merge_hash(value, hashes) ==
  LET h == hash_split(value)
      old == IF h.algo \in DOMAIN hashes THEN hashes[h.algo] ELSE <<>>
  IN [a \in DOMAIN hashes \cup {h.algo} |->
        IF a = h.algo THEN Append(old, h.digest) ELSE hashes[a]]

\* Option.process for one option: check_value (the choices) and take_action.
\* st holds the Values being filled, the finder's format control, and the
\* error raised so far ("" when none).  Appending to features_enabled appends
\* to the list the Values started with.
take_action(option, value, st) ==
  CASE option.action = "store_true" ->
         [st EXCEPT !.values = [@ EXCEPT ![option.dest] = TRUE]]
    [] option.action = "store" ->
         [st EXCEPT !.values = [@ EXCEPT ![option.dest] = value]]
    [] option.action = "append" ->
         IF option.dest = "features_enabled" /\ value \notin {<<c>> : c \in FeatureChoices}
         THEN [st EXCEPT !.error = "invalid choice"]
         ELSE [st EXCEPT !.values = [@ EXCEPT ![option.dest] = Append(@, value)]]
    [] option.action = "_handle_no_binary" ->
         LET r == _handle_no_binary(comma_split(value[1]), st.format_control)
         IN IF r.raised THEN [st EXCEPT !.error = "CommandError"]
            ELSE [st EXCEPT !.format_control = r.fc]
    [] option.action = "_handle_only_binary" ->
         LET r == _handle_only_binary(comma_split(value[1]), st.format_control)
         IN IF r.raised THEN [st EXCEPT !.error = "CommandError"]
            ELSE [st EXCEPT !.format_control = r.fc]
    [] option.action = "_handle_merge_hash" ->
         [st EXCEPT !.values = [@ EXCEPT !.hashes = _handle_merge_hash(value[1], @)]]

RECURSIVE process_args(_, _)
\* OptionParser._process_args: options are looked up by their exact string,
\* an option with an argument takes the next token whatever it is, and a
\* token that is no option is a positional argument, which parse_line drops.
process_args(rargs, st) ==
  IF rargs = <<>> \/ st.error # "" THEN st
  ELSE LET arg == rargs[1] IN
    IF ~startswith_dash(arg)
    THEN Apply(LAMBDA a : process_args(a.rargs, a.st), [rargs |-> Tail(rargs), st |-> st])
    ELSE IF Len(arg) # 1 \/ arg[1] \notin DOMAIN build_parser
    THEN [st EXCEPT !.error = "no such option"]
    ELSE LET option == build_parser[arg[1]] IN
      IF option.nargs = 1
      THEN IF Len(rargs) < 2
           THEN [st EXCEPT !.error = "option requires 1 argument"]
           ELSE Apply(LAMBDA a : process_args(a.rargs, a.st),
                      [rargs |-> SubSeq(rargs, 3, Len(rargs)),
                       st |-> take_action(option, rargs[2], st)])
      ELSE Apply(LAMBDA a : process_args(a.rargs, a.st),
                 [rargs |-> Tail(rargs), st |-> take_action(option, <<>>, st)])

\* parse_line of get_line_parser: a new parser for the line, then
\* break_args_options, shlex.split and parser.parse_args.  The result carries
\* args_str, the decoded opts, the error message ("" when none), and the two
\* objects that outlive the line: the finder's format control and the
\* default list of use_new_feature.
parse_line(line, format_control, shared_features) ==
  LET st0 == [values |-> get_default_values(shared_features),
              format_control |-> format_control, error |-> ""]
      parse_args(broken) ==
        Apply(LAMBDA lexed :
                IF lexed.error # "" THEN [st0 EXCEPT !.error = lexed.error]
                ELSE process_args(lexed.tokens, st0),
              shlex_split(broken.options_str))
      result(broken) ==
        Apply(LAMBDA st :
                [args_str |-> broken.args_str, opts |-> st.values, error |-> st.error,
                 format_control |-> st.format_control,
                 shared_features |-> st.values.features_enabled],
              parse_args(broken))
  IN Apply(LAMBDA broken : result(broken), break_args_options(line))

(***************************************************************************)
(* Files and paths                                                         *)
(***************************************************************************)
\* A file name: its URL scheme ("" for a plain path), whether it is absolute,
\* and its segments.
Path(scheme, abs, segs) == [scheme |-> scheme, abs |-> abs, segs |-> segs]

RootFile == Path("", FALSE, <<"reqs", "root.txt">>)
FileA == Path("", FALSE, <<"reqs", "a.txt">>)
FileB == Path("", FALSE, <<"reqs", "b.txt">>)
DumpedFile == Path("", FALSE, <<"reqs", "dumped.txt">>)

\* the file name an option value spells
path_of(value) ==
  CASE value = <<"a.txt">> -> Path("", FALSE, <<"a.txt">>)
    [] value = <<"b.txt">> -> Path("", FALSE, <<"b.txt">>)
    [] value = <<"missing.txt">> -> Path("", FALSE, <<"missing.txt">>)
    [] OTHER -> Path("", FALSE, value)

\* SCHEME_RE.search(name)
SCHEME_RE_search(name) == name.scheme \in {"http", "https", "file"}

\* urllib.parse.urljoin(filename, req_path) for a reference without dot
\* segments: a reference with a scheme stands alone, an absolute one keeps
\* the host, a relative one replaces the last segment of the base
urljoin(filename, req_path) ==
  IF req_path.scheme # "" THEN req_path
  ELSE IF req_path.abs THEN Path(filename.scheme, TRUE, <<filename.segs[1]>> \o req_path.segs)
  ELSE Path(filename.scheme, TRUE, SubSeq(filename.segs, 1, Len(filename.segs) - 1) \o req_path.segs)

\* os.path.join(os.path.dirname(filename), req_path)
join_dirname(filename, req_path) ==
  IF req_path.abs THEN req_path
  ELSE Path("", filename.abs, SubSeq(filename.segs, 1, Len(filename.segs) - 1) \o req_path.segs)

\* the nested file inherits the constraint-ness of the including file
nested_constraint_inherited(by_requirement, is_constraint) ==
  is_constraint \/ ~by_requirement

\* is_nested_constraint of _parse_and_recurse: fixed by the directive followed
nested_constraint(by_requirement, is_constraint) == ~by_requirement

\* the path resolution of _parse_and_recurse that joins every path to the
\* directory of the including file
resolve_nested_as_path(filename, req_path) == join_dirname(filename, req_path)

\* the path resolution of _parse_and_recurse
resolve_nested(filename, req_path) ==
  IF SCHEME_RE_search(filename) THEN urljoin(filename, req_path)
  ELSE IF ~SCHEME_RE_search(req_path) THEN join_dirname(filename, req_path)
  ELSE req_path

(***************************************************************************)
(* Line handling: ParsedLine, handle_line, requirement construction        *)
(***************************************************************************)
RequirementLine(line, line_number, filename) ==
  [line |-> line, line_number |-> line_number, filename |-> filename]

InvalidRequirementLine(requirement_line, error_message) ==
  [requirement_line |-> requirement_line, error_message |-> error_message]

\* ParsedLine.__init__ that looks at the editable options before the
\* requirement string
ParsedLine_editable_first(requirement_line, requirement_string, options, is_constraint) ==
  [requirement_line |-> requirement_line, options |-> options,
   is_constraint |-> is_constraint,
   is_requirement |-> requirement_string # <<>> \/ options.editables # <<>>,
   is_editable |-> options.editables # <<>>,
   requirement_string |->
     IF options.editables # <<>> THEN options.editables[1] ELSE requirement_string]

\* ParsedLine.__init__: the classification of a decoded line
ParsedLine(requirement_line, requirement_string, options, is_constraint) ==
  [requirement_line |-> requirement_line, options |-> options,
   is_constraint |-> is_constraint,
   is_requirement |-> requirement_string # <<>> \/ options.editables # <<>>,
   is_editable |-> requirement_string = <<>> /\ options.editables # <<>>,
   requirement_string |->
     IF requirement_string # <<>> THEN requirement_string
     ELSE IF options.editables # <<>> THEN options.editables[1] ELSE <<>>]

\* check_install_build_global(options, check_options): "build_options" is no
\* option of the schema
check_install_build_global(format_control, check_options) ==
  IF check_options.global_options # <<>> \/ check_options.install_options # <<>>
  THEN disallow_binaries(format_control)
  ELSE format_control

\* handle_requirement_line: the ParsedRequirement; an editable requirement
\* gets no options, another one the non-empty ones of SUPPORTED_OPTIONS_REQ
handle_requirement_line(parsed_line) ==
  [requirement_string |-> parsed_line.requirement_string,
   is_editable |-> parsed_line.is_editable,
   is_constraint |-> parsed_line.is_constraint,
   options |->
     IF parsed_line.is_editable
     THEN [install_options |-> <<>>, global_options |-> <<>>, hashes |-> EmptyHashes]
     ELSE [install_options |-> parsed_line.options.install_options,
           global_options |-> parsed_line.options.global_options,
           hashes |-> parsed_line.options.hashes],
   requirement_line |-> parsed_line.requirement_line]

\* handle_option_line(opts, finder, options).  options.attrs are the
\* attributes the Values object has; RequirementsFile passes Values() with
\* format_control only, so options.features_enabled was never set and reading
\* it raises AttributeError (after require_hashes was stored and before the
\* finder is touched).
handle_option_line(opts, finder, options) ==
  LET options1 == IF opts.require_hashes
                  THEN [options EXCEPT !.require_hashes = TRUE, !.attrs = @ \cup {"require_hashes"}]
                  ELSE options
      raised == opts.features_enabled # <<>> /\ "features_enabled" \notin options.attrs
      options2 == IF opts.features_enabled # <<>> /\ ~raised
                  THEN [options1 EXCEPT !.features_enabled =
                          @ \o SelectSeq(opts.features_enabled, LAMBDA f : f \notin Range(@))]
                  ELSE options1
      index1 == IF opts.index_url # <<>> THEN Append(finder.index_urls, opts.index_url)
                ELSE finder.index_urls
  IN [raised |-> raised,
      options |-> options2,
      finder |->
        IF raised THEN finder
        ELSE [index_urls |-> index1 \o opts.extra_index_urls,
              find_links |-> finder.find_links \o opts.find_links,
              allow_all_prereleases |-> finder.allow_all_prereleases \/ opts.pre,
              prefer_binary |-> finder.prefer_binary \/ opts.prefer_binary]]

\* The requirement grammar is outside the program (packaging.Requirement);
\* these are the requirement words of the model it rejects.
InvalidRequirementWords == {"bad=1"}

\* the editable values parse_editable accepts: a local path or a VCS URL with
\* an egg fragment
EditableWords == {"./x"}

\* install_req_from_parsed_requirement: the InstallRequirement, or the error
\* raised by the construction
install_req_from_parsed_requirement(parsed_req) ==
  LET ok == IF parsed_req.is_editable
            THEN Range(parsed_req.requirement_string) \subseteq EditableWords
            ELSE Range(parsed_req.requirement_string) \cap InvalidRequirementWords = {}
  IN [raised |-> ~ok,
      error_message |-> IF ok THEN ""
                        ELSE IF parsed_req.is_editable THEN "not a valid editable requirement"
                        ELSE "Invalid requirement",
      req |-> [requirement_line |-> parsed_req.requirement_line,
               requirement_string |-> parsed_req.requirement_string,
               is_editable |-> parsed_req.is_editable,
               is_constraint |-> parsed_req.is_constraint,
               install_options |-> parsed_req.options.install_options,
               global_options |-> parsed_req.options.global_options,
               hash_options |-> parsed_req.options.hashes]]

(***************************************************************************)
(* State                                                                   *)
(***************************************************************************)
VARIABLES
  fs,                   \* the files that can be read: file name -> physical lines
  include_nested,       \* the include_nested argument of RequirementsFile
  shared_features,      \* the default list of use_new_feature (module level)
  pc,                   \* "idle", or "running" inside RequirementsFile.__init__
  stack,                \* the active _parse_and_recurse generators, root first
  format_control,       \* RequirementsFile.format_control (the finder's too)
  options,              \* RequirementsFile.options
  finder,               \* the PackageFinder of the parse
  install_requirements, \* RequirementsFile.install_requirements
  invalid_lines,        \* RequirementsFile.invalid_lines
  comment_lines,        \* RequirementsFile.comment_lines
  results,              \* what each RequirementsFile(...) call so far gave
  line_opts,            \* the line decoded last and the Values it gave
  log,                  \* history: the outcome of every record of this parse
  updates,              \* format-control updates applied (SpecFC, SpecHME)
  last_update,          \* history: the update applied last and the sets before it
  call                  \* a function called on its own: its arguments and result

vars == <<fs, include_nested, shared_features, pc, stack, format_control,
          options, finder, install_requirements, invalid_lines, comment_lines,
          results, line_opts, log, updates, last_update, call>>

\* The physical lines a root file is written from.
PhysicalLines ==
  { <<"pkg">>,
    <<"pkg", SP, SP, HASH, SP, "note">>,
    <<HASH, SP, "c">>,
    <<>>,
    <<"pkg", SP, BS>>,
    <<"bad=1">>,
    <<"--bogus">>,
    <<"-r">>,
    <<"--use-feature", SP, "nope">>,
    <<"-f", SP, QUOTE, "x">>,
    <<"--use-feature", SP, "fast-deps">>,
    <<"pkg", SP, "--use-feature", SP, "fast-deps">>,
    <<"--require-hashes">>,
    <<"-r", SP, "a.txt">>,
    <<"-c", SP, "a.txt">>,
    <<"-r", SP, "missing.txt">>,
    <<"-r", SP, "root.txt">> }

\* The nested files: a.txt includes b.txt with -r.
ContentA ==
  << <<"apkg">>, <<"-r", SP, "b.txt">>, <<HASH, "a">>, <<"--no-binary", SP, ":all:">> >>
ContentB ==
  << <<"bpkg", SP, "--hash", SP, "sha256:d1">>, <<"--pre", SP, BS>>, <<"-i", SP, "idx">>,
     <<"-e", SP, "./x">>, <<"pkg", SP, "--install-option", SP, "x">>, <<"--bogus">>,
     <<"-f", SP, "links">> >>

\* get_file_content(filename): the OSError of open() becomes InstallationError
get_file_content(filename) ==
  IF filename \in DOMAIN fs
  THEN [raised |-> FALSE, content |-> fs[filename]]
  ELSE [raised |-> TRUE, content |-> <<>>]

\* PackageFinder.__init__
PackageFinder ==
  [find_links |-> <<>>, index_urls |-> <<>>,
   allow_all_prereleases |-> FALSE, prefer_binary |-> TRUE]

\* Values() with format_control set
NewOptions ==
  [attrs |-> {"format_control"}, require_hashes |-> FALSE, features_enabled |-> <<>>]

NoLine == [line |-> <<>>, opts |-> get_default_values(<<>>)]

\* no function was called on its own
NoCall == [op |-> "", args |-> <<>>, result |-> <<>>]

NoUpdate ==
  [option |-> "", value |-> <<>>, raised |-> FALSE, before |-> FormatControl({}, {})]

Frame(filename, is_constraint, via, visit) ==
  [filename |-> filename, is_constraint |-> is_constraint, opened |-> FALSE,
   numbered_lines |-> <<>>, idx |-> 0, via |-> via, visit |-> visit]

Init ==
  /\ \E readable \in BOOLEAN :
       fs = [f \in (IF readable THEN {RootFile} ELSE {}) \cup {FileA, FileB} |->
               IF f = RootFile THEN <<>>
               ELSE IF f = FileA THEN ContentA ELSE ContentB]
  /\ include_nested \in BOOLEAN
  /\ shared_features = <<>>
  /\ pc = "idle"
  /\ stack = <<>>
  /\ format_control = FormatControl({}, {})
  /\ options = NewOptions
  /\ finder = PackageFinder
  /\ install_requirements = <<>>
  /\ invalid_lines = <<>>
  /\ comment_lines = <<>>
  /\ results = <<>>
  /\ line_opts = NoLine
  /\ log = <<>>
  /\ updates = 0
  /\ last_update = NoUpdate
  /\ call = NoCall

(***************************************************************************)
(* RequirementsFile.__init__ driving parse_requirements                    *)
(***************************************************************************)
Top == stack[Len(stack)]

HasNext == stack # <<>> /\ Top.opened /\ Top.idx < Len(Top.numbered_lines)
NextRecord == Top.numbered_lines[Top.idx + 1]

Advanced == [stack EXCEPT ![Len(stack)].idx = @ + 1]

\* history: the active generators hold one file twice (a file includes itself,
\* directly or through other files)
StackCyclic ==
  \E i, j \in 1..Len(stack) : i < j /\ stack[i].filename = stack[j].filename

Outcome(outcome) ==
  [visit |-> Top.visit, filename |-> Top.filename, via |-> Top.via,
   line_number |-> NextRecord.line_number, outcome |-> outcome,
   depth |-> Len(stack), cyclic |-> StackCyclic]

\* The call of the line parser at the recursion limit: every nested
\* _parse_and_recurse generator adds frames to the interpreter's stack, and in
\* the deepest one the calls under self._line_parser(line) no longer fit.  The
\* RecursionError is raised before the line is looked at, inside the try of
\* _parse_file.
RecursionError ==
  [args_str |-> <<>>, opts |-> get_default_values(shared_features),
   error |-> "maximum recursion depth exceeded",
   format_control |-> format_control, shared_features |-> shared_features]

\* the line parser never running out of interpreter stack
Decoded_unlimited == parse_line(NextRecord.line, format_control, shared_features)

\* the line parser applied to the next text record, and its ParsedLine
Decoded ==
  IF Len(stack) >= RecursionLimit THEN RecursionError
  ELSE parse_line(NextRecord.line, format_control, shared_features)
CurrentLine == RequirementLine(NextRecord.line, NextRecord.line_number, Top.filename)
ParsedOf(decoded) ==
  ParsedLine(CurrentLine, decoded.args_str, decoded.opts, Top.is_constraint)

\* the condition of _parse_and_recurse for following a nested file
IsNestedInclude(parsed) ==
  /\ include_nested
  /\ ~parsed.is_requirement
  /\ (parsed.options.requirements # <<>> \/ parsed.options.constraints # <<>>)

\* what a RequirementsFile(...) call gave: the object, or the exception
Built ==
  [exception |-> "", install_requirements |-> install_requirements,
   invalid_lines |-> invalid_lines, comment_lines |-> comment_lines,
   options |-> options, format_control |-> format_control,
   find_links |-> finder.find_links, index_urls |-> finder.index_urls]

Raised(exception) ==
  [exception |-> exception, install_requirements |-> <<>>,
   invalid_lines |-> <<>>, comment_lines |-> <<>>,
   options |-> NewOptions, format_control |-> FormatControl({}, {}),
   find_links |-> <<>>, index_urls |-> <<>>]

(***************************************************************************)
(* RequirementsFile.dumps                                                  *)
(***************************************************************************)
\* the lines dumps collects: those of the requirements, then those of the
\* invalid lines, then the comment lines; comment is
\* isinstance(l, CommentRequirementLine)
requirement_lines ==
  [k \in 1..Len(install_requirements) |->
     [line_number |-> install_requirements[k].requirement_line.line_number,
      line |-> install_requirements[k].requirement_line.line, comment |-> FALSE]]
  \o [k \in 1..Len(invalid_lines) |->
       [line_number |-> invalid_lines[k].requirement_line.line_number,
        line |-> invalid_lines[k].requirement_line.line, comment |-> FALSE]]
  \o [k \in 1..Len(comment_lines) |->
       [line_number |-> comment_lines[k].line_number,
        line |-> comment_lines[k].line, comment |-> TRUE]]

\* sort_by(a) <= sort_by(b) for the key (line_number, is a comment)
sort_by_le(a, b) ==
  \/ a.line_number < b.line_number
  \/ a.line_number = b.line_number /\ (a.comment => b.comment)

RECURSIVE sorted(_)
\* sorted(requirement_lines, key=sort_by): a stable sort
sorted(seq) ==
  IF Len(seq) <= 1 THEN seq
  ELSE Apply(LAMBDA head :
               LET last == seq[Len(seq)]
                   p == Cardinality({i \in 1..Len(head) : sort_by_le(head[i], last)})
               IN SubSeq(head, 1, p) \o <<last>> \o SubSeq(head, p + 1, Len(head)),
             sorted(SubSeq(seq, 1, Len(seq) - 1)))

\* the loop of dumps without the branch for a trailing comment
RECURSIVE dumped_from_one_per_record(_, _, _, _)
dumped_from_one_per_record(lines, k, dumped, previous_line_number) ==
  IF k > Len(lines) THEN dumped
  ELSE Apply(LAMBDA a : dumped_from_one_per_record(lines, a.k, a.dumped,
                                                   a.previous_line_number),
             [k |-> k + 1,
              dumped |-> Append(dumped, lines[k].line),
              previous_line_number |-> lines[k].line_number])

RECURSIVE dumped_from(_, _, _, _)
\* the loop of dumps from the k-th sorted line on; dumped holds the output
\* lines so far, each without its "\n"
dumped_from(lines, k, dumped, previous_line_number) ==
  IF k > Len(lines) THEN dumped
  ELSE Apply(LAMBDA a : dumped_from(lines, a.k, a.dumped, a.previous_line_number),
             [k |-> k + 1,
              dumped |-> IF previous_line_number = lines[k].line_number /\ lines[k].comment
                         THEN [dumped EXCEPT ![Len(dumped)] = @ \o <<SP>> \o lines[k].line]
                         ELSE Append(dumped, lines[k].line),
              previous_line_number |-> lines[k].line_number])

\* RequirementsFile.dumps(): the output lines; "".join(dumped) is the text
\* whose splitlines() they are
dumps ==
  Apply(LAMBDA lines : dumped_from(lines, 1, <<>>, 0), sorted(requirement_lines))

\* Before the process parses anything, the root file is written line by line.
WriteLine ==
  /\ pc = "idle" /\ results = <<>>
  /\ RootFile \in DOMAIN fs /\ Len(fs[RootFile]) < MaxLines
  /\ \E line \in PhysicalLines : fs' = [fs EXCEPT ![RootFile] = Append(@, line)]
  /\ UNCHANGED <<include_nested, shared_features, pc, stack, format_control,
                 options, finder, install_requirements, invalid_lines,
                 comment_lines, results, line_opts, log, updates, last_update,
                 call>>

\* RequirementsFile(filename, include_nested) is called: fresh collections,
\* options, format control and finder; nothing is read yet.
NewRequirementsFile ==
  /\ pc = "idle"
  /\ Len(results) < MaxRuns
  /\ pc' = "running"
  /\ stack' = << Frame(IF call.op = "dumped" THEN DumpedFile ELSE RootFile,
                        FALSE, "root", 1) >>
  /\ format_control' = FormatControl({}, {})
  /\ options' = NewOptions
  /\ finder' = PackageFinder
  /\ install_requirements' = <<>>
  /\ invalid_lines' = <<>>
  /\ comment_lines' = <<>>
  /\ line_opts' = NoLine
  /\ log' = <<>>
  /\ UNCHANGED <<fs, include_nested, shared_features, results, updates, last_update, call>>

\* _parse_file starts: get_file_content reads the file and preprocess gives
\* its records
OpenFile ==
  /\ pc = "running" /\ stack # <<>> /\ ~Top.opened
  /\ ~get_file_content(Top.filename).raised
  /\ stack' = [stack EXCEPT ![Len(stack)].opened = TRUE,
                            ![Len(stack)].numbered_lines =
                               preprocess(get_file_content(Top.filename).content)]
  /\ UNCHANGED <<fs, include_nested, shared_features, pc, format_control,
                 options, finder, install_requirements, invalid_lines,
                 comment_lines, results, line_opts, log, updates, last_update,
                 call>>

\* the failure to open a file captured as an invalid line of that file
OpenFails_captured ==
  /\ pc = "running" /\ stack # <<>> /\ ~Top.opened
  /\ get_file_content(Top.filename).raised
  /\ invalid_lines' = Append(invalid_lines,
                             InvalidRequirementLine(RequirementLine(<<>>, 0, Top.filename),
                                                    "Could not open requirements file"))
  /\ stack' = SubSeq(stack, 1, Len(stack) - 1)
  /\ UNCHANGED <<fs, include_nested, shared_features, pc, format_control, options,
                 finder, install_requirements, comment_lines, results,
                 line_opts, log, updates, last_update,
                 call>>

\* get_file_content raises InstallationError: it leaves every generator and
\* RequirementsFile.__init__
OpenFails ==
  /\ pc = "running" /\ stack # <<>> /\ ~Top.opened
  /\ get_file_content(Top.filename).raised
  /\ pc' = "idle"
  /\ stack' = <<>>
  /\ results' = Append(results, Raised("InstallationError"))
  /\ UNCHANGED <<fs, include_nested, shared_features, format_control, options,
                 finder, install_requirements, invalid_lines, comment_lines,
                 line_opts, log, updates, last_update,
                 call>>

\* a CommentLine record becomes a CommentRequirementLine
CommentRecord ==
  /\ pc = "running" /\ HasNext /\ NextRecord.type = "CommentLine"
  /\ comment_lines' = Append(comment_lines, CurrentLine)
  /\ stack' = Advanced
  /\ log' = Append(log, Outcome("comment"))
  /\ UNCHANGED <<fs, include_nested, shared_features, pc, format_control,
                 options, finder, install_requirements, invalid_lines,
                 results, line_opts, updates, last_update,
                 call>>

\* the error of the line parser leaving the parse instead of being caught
DecodeFails_propagates ==
  /\ pc = "running" /\ HasNext /\ NextRecord.type = "TextLine"
  /\ \E decoded \in {Decoded} :
     /\ decoded.error # ""
     /\ shared_features' = decoded.shared_features
     /\ format_control' = decoded.format_control
     /\ line_opts' = [line |-> NextRecord.line, opts |-> decoded.opts]
     /\ pc' = "idle"
     /\ stack' = <<>>
     /\ results' = Append(results, Raised(decoded.error))
     /\ UNCHANGED <<fs, include_nested, options, finder, install_requirements,
                    invalid_lines, comment_lines, log, updates, last_update,
                 call>>

\* the line parser raises: the line becomes an InvalidRequirementLine
DecodeFails ==
  /\ pc = "running" /\ HasNext /\ NextRecord.type = "TextLine"
  /\ \E decoded \in {Decoded} : \E parsed \in {ParsedOf(decoded)} :
     /\ decoded.error # ""
     /\ invalid_lines' = Append(invalid_lines, InvalidRequirementLine(CurrentLine, decoded.error))
     /\ shared_features' = decoded.shared_features
     /\ format_control' = decoded.format_control
     /\ line_opts' = [line |-> NextRecord.line, opts |-> decoded.opts]
     /\ stack' = Advanced
     /\ log' = Append(log, Outcome("invalid"))
     /\ UNCHANGED <<fs, include_nested, pc, options, finder, install_requirements,
                    comment_lines, results, updates, last_update,
                 call>>

\* a requirement line: handle_requirement_line, then the construction of the
\* InstallRequirement succeeds
RequirementBuilt ==
  /\ pc = "running" /\ HasNext /\ NextRecord.type = "TextLine"
  /\ \E decoded \in {Decoded} : \E parsed \in {ParsedOf(decoded)} :
     /\ decoded.error = "" /\ parsed.is_requirement
     /\ LET built == install_req_from_parsed_requirement(handle_requirement_line(parsed))
        IN /\ ~built.raised
           /\ install_requirements' = Append(install_requirements, built.req)
     /\ shared_features' = decoded.shared_features
     /\ format_control' =
          IF parsed.is_editable THEN decoded.format_control
          ELSE check_install_build_global(decoded.format_control, parsed.options)
     /\ line_opts' = [line |-> NextRecord.line, opts |-> decoded.opts]
     /\ stack' = Advanced
     /\ log' = Append(log, Outcome("requirement"))
     /\ UNCHANGED <<fs, include_nested, pc, options, finder, invalid_lines,
                    comment_lines, results, updates, last_update,
                 call>>

\* the construction error leaving the parse instead of being caught
ConstructionFails_propagates ==
  /\ pc = "running" /\ HasNext /\ NextRecord.type = "TextLine"
  /\ \E decoded \in {Decoded} : \E parsed \in {ParsedOf(decoded)} :
     /\ decoded.error = "" /\ parsed.is_requirement
     /\ install_req_from_parsed_requirement(handle_requirement_line(parsed)).raised
     /\ shared_features' = decoded.shared_features
     /\ format_control' = decoded.format_control
     /\ line_opts' = [line |-> NextRecord.line, opts |-> decoded.opts]
     /\ pc' = "idle"
     /\ stack' = <<>>
     /\ results' = Append(results, Raised("InstallationError"))
     /\ UNCHANGED <<fs, include_nested, options, finder, install_requirements,
                    invalid_lines, comment_lines, log, updates, last_update,
                 call>>

\* a requirement line whose construction raises: the error is caught and the
\* line becomes an InvalidRequirementLine
ConstructionFails ==
  /\ pc = "running" /\ HasNext /\ NextRecord.type = "TextLine"
  /\ \E decoded \in {Decoded} : \E parsed \in {ParsedOf(decoded)} :
     /\ decoded.error = "" /\ parsed.is_requirement
     /\ LET built == install_req_from_parsed_requirement(handle_requirement_line(parsed))
        IN /\ built.raised
           /\ invalid_lines' = Append(invalid_lines,
                                      InvalidRequirementLine(CurrentLine, built.error_message))
     /\ shared_features' = decoded.shared_features
     /\ format_control' =
          IF parsed.is_editable THEN decoded.format_control
          ELSE check_install_build_global(decoded.format_control, parsed.options)
     /\ line_opts' = [line |-> NextRecord.line, opts |-> decoded.opts]
     /\ stack' = Advanced
     /\ log' = Append(log, Outcome("invalid"))
     /\ UNCHANGED <<fs, include_nested, pc, options, finder, install_requirements,
                    comment_lines, results, updates, last_update,
                 call>>

\* an option-only line that is no followed include: handle_option_line folds
\* it into options and finder and nothing is yielded
OptionLine ==
  /\ pc = "running" /\ HasNext /\ NextRecord.type = "TextLine"
  /\ \E decoded \in {Decoded} : \E parsed \in {ParsedOf(decoded)} :
     /\ decoded.error = "" /\ ~parsed.is_requirement /\ ~IsNestedInclude(parsed)
     /\ LET handled == handle_option_line(parsed.options, finder, options)
        IN /\ ~handled.raised
           /\ options' = handled.options
           /\ finder' = handled.finder
     /\ shared_features' = decoded.shared_features
     /\ format_control' = decoded.format_control
     /\ line_opts' = [line |-> NextRecord.line, opts |-> decoded.opts]
     /\ stack' = Advanced
     /\ log' = Append(log, Outcome("option"))
     /\ UNCHANGED <<fs, include_nested, pc, install_requirements, invalid_lines,
                    comment_lines, results, updates, last_update,
                 call>>

\* handle_option_line raises AttributeError: nothing catches it, so it leaves
\* RequirementsFile.__init__
OptionLineRaises ==
  /\ pc = "running" /\ HasNext /\ NextRecord.type = "TextLine"
  /\ \E decoded \in {Decoded} : \E parsed \in {ParsedOf(decoded)} :
     /\ decoded.error = "" /\ ~parsed.is_requirement /\ ~IsNestedInclude(parsed)
     /\ LET handled == handle_option_line(parsed.options, finder, options)
        IN /\ handled.raised
           /\ options' = handled.options
     /\ shared_features' = decoded.shared_features
     /\ format_control' = decoded.format_control
     /\ line_opts' = [line |-> NextRecord.line, opts |-> decoded.opts]
     /\ pc' = "idle"
     /\ stack' = <<>>
     /\ results' = Append(results, Raised("AttributeError"))
     /\ log' = Append(log, Outcome("raised"))
     /\ UNCHANGED <<fs, include_nested, finder, install_requirements,
                    invalid_lines, comment_lines, updates, last_update,
                 call>>

\* the nested file put off until the files being read are exhausted
NestedInclude_deferred ==
  /\ pc = "running" /\ HasNext /\ NextRecord.type = "TextLine"
  /\ \E decoded \in {Decoded} : \E parsed \in {ParsedOf(decoded)} :
     /\ decoded.error = "" /\ IsNestedInclude(parsed)
     /\ LET by_requirement == parsed.options.requirements # <<>>
            req_path == IF by_requirement THEN path_of(parsed.options.requirements[1])
                        ELSE path_of(parsed.options.constraints[1])
            is_nested_constraint == nested_constraint(by_requirement, Top.is_constraint)
            visit == 2 + Cardinality({i \in 1..Len(log) : log[i].outcome = "include"})
        IN stack' = << Frame(resolve_nested(Top.filename, req_path),
                             is_nested_constraint,
                             IF by_requirement THEN "r" ELSE "c", visit) >> \o Advanced
     /\ shared_features' = decoded.shared_features
     /\ format_control' = decoded.format_control
     /\ line_opts' = [line |-> NextRecord.line, opts |-> decoded.opts]
     /\ log' = Append(log, Outcome("include"))
     /\ UNCHANGED <<fs, include_nested, pc, options, finder, install_requirements,
                    invalid_lines, comment_lines, results, updates, last_update,
                 call>>

\* an option-only -r/-c line with include_nested: the first -r path, else the
\* first -c path, is resolved and a generator for it is entered; the line
\* itself is not handled
NestedInclude ==
  /\ pc = "running" /\ HasNext /\ NextRecord.type = "TextLine"
  /\ \E decoded \in {Decoded} : \E parsed \in {ParsedOf(decoded)} :
     /\ decoded.error = "" /\ IsNestedInclude(parsed)
     /\ LET by_requirement == parsed.options.requirements # <<>>
            req_path == IF by_requirement THEN path_of(parsed.options.requirements[1])
                        ELSE path_of(parsed.options.constraints[1])
            is_nested_constraint == nested_constraint(by_requirement, Top.is_constraint)
            visit == 2 + Cardinality({i \in 1..Len(log) : log[i].outcome = "include"})
        IN stack' = Append(Advanced,
                           Frame(resolve_nested(Top.filename, req_path),
                                 is_nested_constraint,
                                 IF by_requirement THEN "r" ELSE "c", visit))
     /\ shared_features' = decoded.shared_features
     /\ format_control' = decoded.format_control
     /\ line_opts' = [line |-> NextRecord.line, opts |-> decoded.opts]
     /\ log' = Append(log, Outcome("include"))
     /\ UNCHANGED <<fs, include_nested, pc, options, finder, install_requirements,
                    invalid_lines, comment_lines, results, updates, last_update,
                 call>>

\* _parse_file is exhausted: the generator of the file ends
EndOfFile ==
  /\ pc = "running" /\ stack # <<>> /\ Top.opened /\ ~HasNext
  /\ stack' = SubSeq(stack, 1, Len(stack) - 1)
  /\ log' = Append(log, [visit |-> Top.visit, filename |-> Top.filename,
                         via |-> Top.via, line_number |-> 0, outcome |-> "eof",
                         depth |-> Len(stack), cyclic |-> StackCyclic])
  /\ UNCHANGED <<fs, include_nested, shared_features, pc, format_control,
                 options, finder, install_requirements, invalid_lines,
                 comment_lines, results, line_opts, updates, last_update,
                 call>>

\* the loop of RequirementsFile.__init__ ends: find_links and index_urls are
\* taken from the finder and the object exists
Finish ==
  /\ pc = "running" /\ stack = <<>>
  /\ pc' = "idle"
  /\ results' = Append(results, Built)
  /\ UNCHANGED <<fs, include_nested, shared_features, stack, format_control,
                 options, finder, install_requirements, invalid_lines,
                 comment_lines, line_opts, log, updates, last_update,
                 call>>

\* dumps() is called on the RequirementsFile the process built first
Dumps ==
  /\ pc = "idle" /\ Len(results) = 1 /\ results[1].exception = ""
  /\ call.op = ""
  /\ call' = [op |-> "dumps", args |-> requirement_lines, result |-> dumps]
  /\ UNCHANGED <<fs, include_nested, shared_features, pc, stack, format_control,
                 options, finder, install_requirements, invalid_lines,
                 comment_lines, results, line_opts, log, updates, last_update>>

\* the text dumps() returned for a single file is written to a file of its
\* own, which the process parses next
WriteDumped ==
  /\ pc = "idle" /\ call.op = "dumps" /\ Len(results) = 1
  /\ ~include_nested
  /\ fs' = [f \in DOMAIN fs \cup {DumpedFile} |->
              IF f = DumpedFile THEN call.result ELSE fs[f]]
  /\ call' = [call EXCEPT !.op = "dumped"]
  /\ UNCHANGED <<include_nested, shared_features, pc, stack, format_control,
                 options, finder, install_requirements, invalid_lines,
                 comment_lines, results, line_opts, log, updates, last_update>>

Next ==
  \/ WriteLine
  \/ Dumps
  \/ WriteDumped
  \/ NewRequirementsFile
  \/ OpenFile
  \/ OpenFails
  \/ CommentRecord
  \/ DecodeFails
  \/ RequirementBuilt
  \/ ConstructionFails
  \/ OptionLine
  \/ OptionLineRaises
  \/ NestedInclude
  \/ EndOfFile
  \/ Finish

Spec == Init /\ [][Next]_vars

\* The steps of a running RequirementsFile.__init__.  The constructor is one
\* synchronous call: once it is entered, the interpreter keeps executing it
\* until it returns or raises.
RunStep ==
  \/ OpenFile
  \/ OpenFails
  \/ CommentRecord
  \/ DecodeFails
  \/ RequirementBuilt
  \/ ConstructionFails
  \/ OptionLine
  \/ OptionLineRaises
  \/ NestedInclude
  \/ EndOfFile
  \/ Finish

SpecLive == Init /\ [][Next]_vars /\ WF_vars(RunStep)

(***************************************************************************)
(* Format-control updates on their own                                     *)
(***************************************************************************)
\* the items a --no-binary / --only-binary value is written from
FormatItems == {":all:", ":none:", "foo", "Foo", "-x"}

\* the names the two sets can hold at the start of an update
FormatNames == {":all:", "foo", "b-r"}

FormatValues == UNION {[1..k -> FormatItems] : k \in 1..MaxItems}

Idle ==
  /\ fs = [f \in {FileA, FileB} |-> IF f = FileA THEN ContentA ELSE ContentB]
  /\ include_nested = FALSE
  /\ shared_features = <<>>
  /\ pc = "idle"
  /\ stack = <<>>
  /\ options = NewOptions
  /\ finder = PackageFinder
  /\ install_requirements = <<>>
  /\ invalid_lines = <<>>
  /\ comment_lines = <<>>
  /\ results = <<>>
  /\ line_opts = NoLine
  /\ log = <<>>
  /\ updates = 0
  /\ last_update = NoUpdate

\* FormatControl(): two empty sets
InitFC == Idle /\ call = NoCall /\ format_control = FormatControl({}, {})

\* FormatControl(no_binary, only_binary): any two sets
InitHME ==
  /\ Idle
  /\ call = NoCall
  /\ \E no \in SUBSET FormatNames, only \in SUBSET FormatNames :
       format_control = FormatControl(no, only)

\* --no-binary value
NoBinaryUpdate ==
  /\ updates < MaxUpdates
  /\ \E value \in FormatValues :
       LET r == _handle_no_binary(value, format_control)
       IN /\ format_control' = r.fc
          /\ last_update' = [option |-> "--no-binary", value |-> value,
                             raised |-> r.raised, before |-> format_control]
  /\ updates' = updates + 1
  /\ UNCHANGED <<fs, include_nested, shared_features, pc, stack, options, finder,
                 install_requirements, invalid_lines, comment_lines, results,
                 line_opts, log,
                 call>>

\* --only-binary value
OnlyBinaryUpdate ==
  /\ updates < MaxUpdates
  /\ \E value \in FormatValues :
       LET r == _handle_only_binary(value, format_control)
       IN /\ format_control' = r.fc
          /\ last_update' = [option |-> "--only-binary", value |-> value,
                             raised |-> r.raised, before |-> format_control]
  /\ updates' = updates + 1
  /\ UNCHANGED <<fs, include_nested, shared_features, pc, stack, options, finder,
                 install_requirements, invalid_lines, comment_lines, results,
                 line_opts, log,
                 call>>

NextFC == NoBinaryUpdate \/ OnlyBinaryUpdate

SpecFC == InitFC /\ [][NextFC]_vars

SpecHME == InitHME /\ [][NextFC]_vars

(***************************************************************************)
(* Claims about format control                                             *)
(***************************************************************************)
\* C8: starting from two empty sets, after any sequence of --no-binary and
\* --only-binary updates, no_binary and only_binary have no element in
\* common, neither a canonical name nor the ":all:" sentinel.
C8_NeverBothContain ==
  format_control.no_binary \cap format_control.only_binary = {}

\* C8 witness: after updates of both kinds both sets hold something.
C8_Witness ==
  /\ updates >= 2
  /\ format_control.no_binary # {}
  /\ format_control.only_binary # {}

\* The update as the claim words it, in closed form.  When the value holds
\* ":all:", both sets end as target = {":all:"} and other = {} unless a
\* ":none:" follows the last ":all:", and then the items after that ":all:"
\* are applied to these two sets; without ":all:" all items are applied.
\* Applying items: target keeps what it had only if no ":none:" is among
\* them and gains the canonical names written after the last ":none:"; other
\* loses every canonical name written.
LastIndex(seq, item) ==
  IF item \in Range(seq)
  THEN CHOOSE i \in 1..Len(seq) : seq[i] = item /\ \A j \in (i + 1)..Len(seq) : seq[j] # item
  ELSE 0

AppliedNames(items, target, other) ==
  LET n == LastIndex(items, ":none:")
      after == {canonicalize_name(items[i]) : i \in (n + 1)..Len(items)}
      written == {canonicalize_name(items[i]) : i \in {j \in 1..Len(items) : items[j] # ":none:"}}
  IN [target |-> (IF n = 0 THEN target ELSE {}) \cup after,
      other |-> other \ written]

SpecifiedUpdate(value, target, other) ==
  LET a == LastIndex(value, ":all:")
      rest == SubSeq(value, a + 1, Len(value))
  IN IF a = 0 THEN AppliedNames(value, target, other)
     ELSE IF ":none:" \in Range(rest) THEN AppliedNames(rest, {":all:"}, {})
     ELSE [target |-> {":all:"}, other |-> {}]

\* the two sets the claim gives for the update applied last
SpecifiedAfterLast ==
  IF last_update.option = "--no-binary"
  THEN LET r == SpecifiedUpdate(last_update.value, last_update.before.no_binary,
                                last_update.before.only_binary)
       IN FormatControl(r.target, r.other)
  ELSE LET r == SpecifiedUpdate(last_update.value, last_update.before.only_binary,
                                last_update.before.no_binary)
       IN FormatControl(r.other, r.target)

\* C9 as stated: for every value and every starting pair of sets,
\* handle_mutual_excludes leaves the two sets as the specified update says.
C9_EveryValue ==
  updates > 0 => format_control = SpecifiedAfterLast

\* C9 as amended: a value that starts with "-" raises the command error and
\* leaves both sets as they were; for every other value and every starting
\* pair of sets the two sets end as the specified update says.
C9_SpecifiedUpdate ==
  updates > 0 =>
    IF last_update.value[1] \in DashWords
    THEN last_update.raised /\ format_control = last_update.before
    ELSE ~last_update.raised /\ format_control = SpecifiedAfterLast

\* C9 witness: --no-binary :none:,foo applied after :all: leaves
\* no_binary = {foo} and only_binary = {}.
C9_Witness ==
  /\ last_update.option = "--no-binary"
  /\ last_update.value = <<":none:", "foo">>
  /\ last_update.before = FormatControl({":all:"}, {})
  /\ format_control = FormatControl({"foo"}, {})

(***************************************************************************)
(* Claims about the parse                                                  *)
(***************************************************************************)
TextOutcomes == {"requirement", "invalid", "option", "include", "raised"}

\* how many outcomes of the given kinds the log holds for a line of a visit
Count(visit, line_number, outcomes) ==
  Cardinality({i \in 1..Len(log) :
                 /\ log[i].visit = visit
                 /\ log[i].line_number = line_number
                 /\ log[i].outcome \in outcomes})

\* the visits of files that were read to their end
CompletedVisits == {i \in 1..Len(log) : log[i].outcome = "eof"}

\* a physical line that join_lines joins with the next one
Continues(line) == endswith_backslash(line) /\ ~COMMENT_RE_match(line)

\* the physical lines that start a logical line
FirstLines(content) ==
  {n \in 1..Len(content) : n = 1 \/ ~Continues(content[n - 1])}

\* a logical line has text before its comment
HasText(line) ==
  \E i \in 1..Len(line) : line[i] # SP /\ \A q \in CommentStarts(line) : i < q

\* C1 as stated: of a file read to its end, every physical line has exactly
\* one outcome: a requirement record, an invalid-line record, a comment
\* record, or silent consumption as an option line.
C1_EveryPhysicalLineOnce ==
  \A e \in CompletedVisits :
    \A n \in 1..Len(fs[log[e].filename]) :
      Count(log[e].visit, n, TextOutcomes \cup {"comment"}) = 1

\* C1 as amended: the physical lines of a file are partitioned into logical
\* lines, each a physical line with the continuation lines joined to it.
\* Every outcome is recorded under the number of the first physical line of
\* a logical line.  Of a file read to its end, a logical line has exactly one
\* text outcome (requirement record, invalid-line record, option line
\* consumed silently, or followed include) when it has text and none when it
\* has not, and exactly one comment record when it has a comment and none
\* when it has not: a blank line has no outcome and a line with text and a
\* trailing comment has two.
C1_EveryLogicalLine ==
  /\ \A i \in 1..Len(log) :
       log[i].outcome # "eof" =>
         /\ log[i].line_number \in FirstLines(fs[log[i].filename])
         /\ Count(log[i].visit, log[i].line_number, TextOutcomes) <= 1
         /\ Count(log[i].visit, log[i].line_number, {"comment"}) <= 1
  /\ \A e \in CompletedVisits :
       LET content == fs[log[e].filename]
           logical == join_lines(content)
       IN /\ {logical[k].line_number : k \in 1..Len(logical)} = FirstLines(content)
          /\ \A k \in 1..Len(logical) :
               /\ Count(log[e].visit, logical[k].line_number, TextOutcomes)
                    = IF HasText(logical[k].line) THEN 1 ELSE 0
               /\ Count(log[e].visit, logical[k].line_number, {"comment"})
                    = IF CommentStarts(logical[k].line) # {} THEN 1 ELSE 0

\* C1 witness: a root file read to its end whose first line gave two records
\* and whose second line gave none.
C1_Witness ==
  \E e \in CompletedVisits :
    /\ log[e].visit = 1
    /\ Len(fs[RootFile]) = 2
    /\ Count(1, 1, TextOutcomes) = 1 /\ Count(1, 1, {"comment"}) = 1
    /\ Count(1, 2, TextOutcomes \cup {"comment"}) = 0

\* the next record is a text line that the line parser fails to decode
DecodeFailure ==
  /\ pc = "running" /\ HasNext /\ NextRecord.type = "TextLine"
  /\ Decoded.error # ""

\* C2: a text line whose options fail to decode gives exactly one
\* invalid-line record with the line's text, its line number and the failure
\* message; the parse is not aborted and goes on with the next record.
C2_DecodeFailureIsolated ==
  [][DecodeFailure =>
       /\ invalid_lines' =
            Append(invalid_lines,
                   [requirement_line |-> [line |-> NextRecord.line,
                                          line_number |-> NextRecord.line_number,
                                          filename |-> Top.filename],
                    error_message |-> Decoded.error])
       /\ install_requirements' = install_requirements
       /\ comment_lines' = comment_lines
       /\ pc' = "running"
       /\ results' = results
       /\ stack' = Advanced]_vars

\* C2 witness: an unbalanced quote gave an invalid-line record and a later
\* line of the same file gave a requirement.
C2_Witness ==
  \E k \in 1..Len(invalid_lines), j \in 1..Len(install_requirements) :
    /\ invalid_lines[k].error_message = "No closing quotation"
    /\ install_requirements[j].requirement_line.filename
         = invalid_lines[k].requirement_line.filename
    /\ install_requirements[j].requirement_line.line_number
         > invalid_lines[k].requirement_line.line_number

\* the next record is an option-only line, not a followed include, that
\* carries the given option
OptionLineWith(option) ==
  /\ pc = "running" /\ HasNext /\ NextRecord.type = "TextLine"
  /\ option \in Range(NextRecord.line)
  /\ Decoded.error = ""
  /\ ~ParsedOf(Decoded).is_requirement
  /\ ~IsNestedInclude(ParsedOf(Decoded))

\* C3: an option-only line with --require-hashes or --use-feature and an
\* allowed feature is folded into the options (the flag is set, the feature
\* is among the enabled ones), gives no record, raises nothing, and the parse
\* goes on with the next record.
C3_OptionLineFolded ==
  [][(OptionLineWith("--require-hashes") \/ OptionLineWith("--use-feature")) =>
       /\ pc' = "running"
       /\ results' = results
       /\ stack' = Advanced
       /\ install_requirements' = install_requirements
       /\ invalid_lines' = invalid_lines
       /\ comment_lines' = comment_lines
       /\ (OptionLineWith("--require-hashes") => options'.require_hashes)
       /\ (OptionLineWith("--use-feature") =>
             \A f \in FeatureChoices :
               f \in Range(NextRecord.line) => <<f>> \in Range(options'.features_enabled))]_vars

\* the list-valued options
ListOptions ==
  {"extra_index_urls", "find_links", "trusted_hosts", "requirements",
   "constraints", "editables", "features_enabled", "install_options",
   "global_options"}

\* C4: every list-valued option decoded for a line holds only values written
\* on that line.
C4_FreshListOptions ==
  /\ \A dest \in ListOptions :
       \A k \in 1..Len(line_opts.opts[dest]) :
         line_opts.opts[dest][k] \in Range(split(line_opts.line, SP))
  /\ \A algo \in DOMAIN line_opts.opts.hashes :
       \A k \in 1..Len(line_opts.opts.hashes[algo]) :
         \E i \in 1..Len(line_opts.line) :
           hash_split(line_opts.line[i])
             = [algo |-> algo, digest |-> line_opts.opts.hashes[algo][k]]

\* C5: building RequirementsFile again from the same files gives the same
\* result.
C5_SameResult ==
  call.op # "dumped" => \A i, j \in 1..Len(results) : results[i] = results[j]

\* C6: a requirement-bearing record goes to install_requirements when its
\* construction succeeds and to invalid_lines, with its line and the error
\* text, when the construction raises, which never aborts the parse; a
\* comment record goes to comment_lines; the three collections hold one entry
\* per record emitted.
C6_Routing ==
  /\ [][(pc = "running" /\ HasNext) =>
          LET parsed == ParsedOf(Decoded)
              built == install_req_from_parsed_requirement(handle_requirement_line(parsed))
          IN CASE NextRecord.type = "CommentLine" ->
                    /\ comment_lines' = Append(comment_lines, CurrentLine)
                    /\ install_requirements' = install_requirements
                    /\ invalid_lines' = invalid_lines
               [] NextRecord.type = "TextLine" /\ Decoded.error = ""
                    /\ parsed.is_requirement /\ ~built.raised ->
                    /\ install_requirements' = Append(install_requirements, built.req)
                    /\ invalid_lines' = invalid_lines
                    /\ comment_lines' = comment_lines
                    /\ pc' = "running"
               [] NextRecord.type = "TextLine" /\ Decoded.error = ""
                    /\ parsed.is_requirement /\ built.raised ->
                    /\ invalid_lines' =
                         Append(invalid_lines,
                                [requirement_line |-> CurrentLine,
                                 error_message |-> built.error_message])
                    /\ install_requirements' = install_requirements
                    /\ comment_lines' = comment_lines
                    /\ pc' = "running"
                    /\ results' = results
               [] OTHER -> TRUE]_vars
  /\ [](Len(install_requirements) + Len(invalid_lines) + Len(comment_lines)
          = Cardinality({i \in 1..Len(log) :
                           log[i].outcome \in {"requirement", "invalid", "comment"}}))

\* C6 witness: a construction error became an invalid-line record and the
\* record after it a requirement.
C6_Witness ==
  /\ \E k \in 1..Len(invalid_lines) : invalid_lines[k].error_message = "Invalid requirement"
  /\ install_requirements # <<>>
  /\ log[Len(log)].outcome = "requirement"

\* the file the innermost generator is about to read cannot be opened
OpenFailure ==
  /\ pc = "running" /\ stack # <<>> /\ ~Top.opened
  /\ Top.filename \notin DOMAIN fs

\* C7: a root file or nested file that cannot be opened ends the parse with
\* an error: no invalid-line record is made of it and the RequirementsFile
\* call gives the error and no collections.
C7_OpenFailureFatal ==
  [][OpenFailure =>
       /\ pc' = "idle"
       /\ invalid_lines' = invalid_lines
       /\ Len(results') = Len(results) + 1
       /\ results'[Len(results')].exception = "InstallationError"
       /\ results'[Len(results')].install_requirements = <<>>
       /\ results'[Len(results')].invalid_lines = <<>>
       /\ results'[Len(results')].comment_lines = <<>>]_vars

\* C7 witness: a nested file could not be opened after the root file had
\* given a requirement, and the call gave only the error.
C7_Witness ==
  /\ pc = "idle" /\ results # <<>>
  /\ results[Len(results)].exception = "InstallationError"
  /\ install_requirements # <<>>
  /\ log # <<>> /\ log[Len(log)].outcome = "include"

\* the log entries of the requirement records, in the order of
\* install_requirements
RequirementOutcomes == SelectSeq(log, LAMBDA e : e.outcome = "requirement")

\* C10: a requirement record of a nested file is a constraint exactly when
\* the file was included with -c, and is none when it was included with -r,
\* whatever the including file is.
C10_ConstraintByDirective ==
  /\ Len(RequirementOutcomes) = Len(install_requirements)
  /\ \A k \in 1..Len(install_requirements) :
       /\ RequirementOutcomes[k].via = "c" => install_requirements[k].is_constraint
       /\ RequirementOutcomes[k].via = "r" => ~install_requirements[k].is_constraint

\* C10 witness: a.txt was included with -c and b.txt, included from it with
\* -r, gave a requirement that is no constraint.
C10_Witness ==
  \E k \in 1..Len(install_requirements), i \in 1..Len(log) :
    /\ log[i].filename = FileA /\ log[i].via = "c"
    /\ RequirementOutcomes[k].filename = FileB
    /\ RequirementOutcomes[k].via = "r"
    /\ RequirementOutcomes[k].visit > log[i].visit
    /\ ~install_requirements[k].is_constraint

(***************************************************************************)
(* C11: a followed include is replaced by the records of the nested file   *)
(***************************************************************************)
\* the visit number of the nested parse the include logged at index i starts
ChildVisit(i) == 1 + Cardinality({k \in 1..i : log[k].outcome = "include"})

RecordOutcomes == {"requirement", "invalid", "comment"}

\* C11: with include_nested, for every followed -r/-c line of a file: what the
\* file logged before it comes from earlier lines; everything the nested
\* parse logs comes after the include line and before anything else of the
\* including file; the including file goes on only after the nested parse
\* reached its end; and the include line adds no record, so the collections
\* hold exactly the requirement, invalid and comment outcomes.
C11_NestedInPlace ==
  /\ \A i \in 1..Len(log) :
       log[i].outcome = "include" =>
         LET u == log[i].visit
             v == ChildVisit(i)
         IN /\ include_nested
            /\ \A j \in 1..(i - 1) :
                 log[j].visit = u => log[j].line_number < log[i].line_number
            /\ \A j \in 1..Len(log) :
                 log[j].visit = v =>
                   /\ j > i
                   /\ \A k \in (i + 1)..j : log[k].visit # u
            /\ \A k \in (i + 1)..Len(log) :
                 log[k].visit = u =>
                   /\ log[k].outcome # "eof" => log[k].line_number >= log[i].line_number
                   /\ \E j \in (i + 1)..(k - 1) :
                        log[j].visit = v /\ log[j].outcome = "eof"
  /\ Len(install_requirements) + Len(invalid_lines) + Len(comment_lines)
       = Cardinality({i \in 1..Len(log) : log[i].outcome \in RecordOutcomes})

\* a.txt was included and its own include of b.txt lies between the
\* requirement of its first line and the comment of its third, with a
\* requirement of b.txt in between
C11_Witness ==
  \E i, j, k, l \in 1..Len(log) :
    /\ j < i /\ i < k /\ k < l
    /\ log[i].outcome = "include" /\ log[i].filename = FileA
    /\ log[j].visit = log[i].visit /\ log[j].outcome = "requirement"
    /\ log[k].visit = ChildVisit(i) /\ log[k].outcome = "requirement"
    /\ log[k].filename = FileB
    /\ log[l].visit = log[i].visit /\ log[l].outcome = "comment"

(***************************************************************************)
(* C12: termination of the parse and include cycles                        *)
(***************************************************************************)
\* the parse traversed an include cycle: some file was read while a parse of
\* the same file was active
CycleMet == \E i \in 1..Len(log) : log[i].cyclic

\* the parse is over: RequirementsFile(...) returned or raised
ParseEnded == pc = "idle"

RecordLines ==
  [k \in 1..Len(install_requirements) |-> install_requirements[k].requirement_line]
  \o [k \in 1..Len(invalid_lines) |-> invalid_lines[k].requirement_line]
  \o comment_lines

\* the last physical line of the logical line that starts at physical line n
LastLine(content, n) ==
  CHOOSE m \in n..Len(content) :
    /\ m = Len(content) \/ ~Continues(content[m])
    /\ \A k \in n..(m - 1) : Continues(content[k])

\* C13: the line_number of every record, text or comment, is the 1-based
\* number of the first physical line of a logical line of the record's file,
\* and the text of the record is made of that logical line: of the physical
\* line n and the continuation lines joined to it.
C13_FirstPhysicalLine ==
  \A k \in 1..Len(RecordLines) :
    LET r == RecordLines[k]
        content == fs[r.filename]
        n == r.line_number
    IN /\ n \in FirstLines(content)
       /\ r.line # <<>>
       /\ Range(r.line) \subseteq
            UNION {Range(content[m]) : m \in n..LastLine(content, n)}

\* the root file is a line ending in a backslash followed by a comment line:
\* the requirement and the comment, which stands on physical line 2, both
\* have line number 1
C13_Witness ==
  /\ RootFile \in DOMAIN fs /\ Len(fs[RootFile]) >= 2
  /\ Continues(fs[RootFile][1])
  /\ \E k \in 1..Len(install_requirements) :
       /\ install_requirements[k].requirement_line.filename = RootFile
       /\ install_requirements[k].requirement_line.line_number = 1
  /\ \E k \in 1..Len(comment_lines) :
       /\ comment_lines[k].filename = RootFile
       /\ comment_lines[k].line_number = 1
       /\ comment_lines[k].line = fs[RootFile][2]

(***************************************************************************)
(* The line preprocessor on its own                                        *)
(***************************************************************************)
\* the physical lines the preprocessor is called with
PreLines ==
  { <<"a">>,
    <<"a", SP, BS>>,
    <<"a", BS, BS>>,
    <<BS, "a", BS>>,
    <<HASH, SP, "c", BS>>,
    <<>>,
    <<SP, SP>>,
    <<"a", SP, HASH, "c">>,
    <<"u", HASH, "e", SP, SP, HASH, SP, "c">>,
    <<SP, HASH, "c">> }

\* content.splitlines() of any content of up to MaxPreLines lines
InitPre ==
  /\ Idle
  /\ format_control = FormatControl({}, {})
  /\ \E n \in 0..MaxPreLines : \E lines \in [1..n -> PreLines] :
       call = [op |-> "", args |-> lines, result |-> <<>>]

\* join_lines(enumerate(lines, start=1))
CallJoinLines ==
  /\ call.op = ""
  /\ call' = [call EXCEPT !.op = "join_lines", !.result = join_lines(call.args)]
  /\ UNCHANGED <<fs, include_nested, shared_features, pc, stack, format_control,
                 options, finder, install_requirements, invalid_lines,
                 comment_lines, results, line_opts, log, updates, last_update>>

\* preprocess(content): the logical lines and the records made of them
CallPreprocess ==
  /\ call.op = ""
  /\ call' = [call EXCEPT !.op = "preprocess",
                          !.result = [joined |-> join_lines(call.args),
                                      records |-> preprocess(call.args)]]
  /\ UNCHANGED <<fs, include_nested, shared_features, pc, stack, format_control,
                 options, finder, install_requirements, invalid_lines,
                 comment_lines, results, line_opts, log, updates, last_update>>

NextPre == CallJoinLines \/ CallPreprocess

SpecPre == InitPre /\ [][NextPre]_vars

(***************************************************************************)
(* C14: join_lines                                                         *)
(***************************************************************************)
RECURSIVE TrailingBackslashes(_)
\* the number of backslashes a line ends in
TrailingBackslashes(line) ==
  IF line # <<>> /\ line[Len(line)] = BS
  THEN 1 + TrailingBackslashes(SubSeq(line, 1, Len(line) - 1))
  ELSE 0

\* the line ends in an unescaped backslash (a backslash escapes the one after
\* it) and is no comment line
JoinedWithNext(line) ==
  TrailingBackslashes(line) % 2 = 1 /\ ~COMMENT_RE_match(line)

\* the logical line that starts at physical line n: the lines up to the first
\* one not joined with its successor, each joined one without its marker,
\* nothing put in between
JoinedFrom(lines, n) ==
  LET m == CHOOSE x \in n..Len(lines) :
             /\ x = Len(lines) \/ ~JoinedWithNext(lines[x])
             /\ \A k \in n..(x - 1) : JoinedWithNext(lines[k])
  IN Concat([k \in 1..(m - n + 1) |->
               IF JoinedWithNext(lines[n + k - 1])
               THEN SubSeq(lines[n + k - 1], 1, Len(lines[n + k - 1]) - 1)
               ELSE lines[n + k - 1]])

\* C14 as stated: join_lines joins a physical line with the following one
\* exactly when it ends in an unescaped trailing backslash and is not a
\* comment line; a joined logical line is its physical lines without their
\* join markers and with nothing put in between.  (What join_lines does to a
\* line it joins with nothing is left open.)
C14_JoinsExactly ==
  call.op = "join_lines" =>
    LET lines == call.args
        starts == {n \in 1..Len(lines) : n = 1 \/ ~JoinedWithNext(lines[n - 1])}
    IN /\ {call.result[k].line_number : k \in 1..Len(call.result)} = starts
       /\ \A k \in 1..Len(call.result) :
            LET n == call.result[k].line_number
            IN (n \in starts /\ JoinedWithNext(lines[n]))
                 => call.result[k].line = JoinedFrom(lines, n)

(***************************************************************************)
(* C15: split_comments                                                     *)
(***************************************************************************)
\* the records specified for one logical line: the comment is everything
\* from the first "#" at the line start or after whitespace, the text what
\* stands before it; each part is trimmed and left out when empty
SpecifiedRecords(numbered) ==
  LET line == numbered.line
      n == numbered.line_number
      q == IF CommentStarts(line) = {} THEN Len(line) + 1
           ELSE CHOOSE x \in CommentStarts(line) : \A y \in CommentStarts(line) : x <= y
      text == strip(SubSeq(line, 1, q - 1), {SP})
      comment == strip(SubSeq(line, q, Len(line)), {SP})
  IN (IF text # <<>>
      THEN << [type |-> "TextLine", line_number |-> n, line |-> text] >> ELSE <<>>)
     \o (IF comment # <<>>
         THEN << [type |-> "CommentLine", line_number |-> n, line |-> comment] >> ELSE <<>>)

\* C15: split_comments turns each logical line into at most one text record
\* and at most one comment record with the line's number, text first, and
\* the records of the lines follow each other in the order of the lines.
\* The comment is everything from the first "#" that is at the line start or
\* preceded by whitespace; a part that is empty after trimming is not
\* emitted, so a comment-only line gives only a comment record; a text record
\* never starts with "#", a comment record always does; the "Invalid
\* line/comment" exception is never raised.
C15_SplitComments ==
  call.op = "preprocess" =>
    LET joined == call.result.joined
        records == call.result.records
    IN /\ records = Concat([k \in 1..Len(joined) |-> SpecifiedRecords(joined[k])])
       /\ \A k \in 1..Len(joined) :
            LET own == SelectSeq(records,
                                 LAMBDA r : r.line_number = joined[k].line_number)
            IN /\ Len(own) <= 2
               /\ Len(own) = 2 => own[1].type = "TextLine" /\ own[2].type = "CommentLine"
       /\ \A k \in 1..Len(records) :
            /\ records[k].type \in {"TextLine", "CommentLine"}
            /\ records[k].line # <<>>
            /\ records[k].type = "CommentLine" <=> records[k].line[1] = HASH

\* a line with a "#" inside a word, then text-ending whitespace and a comment,
\* gave a text record that holds the first "#" and a comment record, and a
\* comment-only line gave one record
C15_Witness ==
  /\ call.op = "preprocess"
  /\ Len(call.args) = 2
  /\ call.args[1] = <<"u", HASH, "e", SP, SP, HASH, SP, "c">>
  /\ call.args[2] = <<SP, HASH, "c">>
  /\ call.result.records =
       << [type |-> "TextLine", line_number |-> 1, line |-> <<"u", HASH, "e">>],
          [type |-> "CommentLine", line_number |-> 1, line |-> <<HASH, SP, "c">>],
          [type |-> "CommentLine", line_number |-> 2, line |-> <<HASH, "c">>] >>

(***************************************************************************)
(* C16  dumps() emits every recorded line once, in ascending order of      *)
(* (line number, comment after requirement), a line of output per record,  *)
(* but a comment of the line number of the record emitted just before it   *)
(* is appended to that record's output line after a single space           *)
(***************************************************************************)
\* the records of the object dumps() was called on
DumpedRecords == call.args

\* the place of the i-th record in ascending order of (line_number, comment),
\* records of one key in the order they were collected in
OutputRank(i) ==
  LET R == DumpedRecords
      less(a, b) == \/ a.line_number < b.line_number
                    \/ a.line_number = b.line_number /\ ~a.comment /\ b.comment
  IN 1 + Cardinality({j \in 1..Len(R) : less(R[j], R[i])})
       + Cardinality({j \in 1..(i - 1) :
                        ~less(R[j], R[i]) /\ ~less(R[i], R[j])})

\* the records in the order of output
InOutputOrder ==
  [r \in 1..Len(DumpedRecords) |->
     DumpedRecords[CHOOSE i \in 1..Len(DumpedRecords) : OutputRank(i) = r]]

\* the r-th of the records R, which are in output order, is appended to the
\* line before it
IsAppended(R, r) ==
  /\ r > 1
  /\ R[r].comment
  /\ R[r].line_number = R[r - 1].line_number

\* the output line the r-th of the records R lies on
OutputLineOf(R, r) == Cardinality({q \in 1..r : ~IsAppended(R, q)})

\* C16: when dumps() has returned, the records collected are those of the
\* three collections, each record lies on one output line, the records of an
\* output line are a record and the comments appended to it, separated by
\* one space, and the output has no other line.
C16_DumpsOrder ==
  call.op \in {"dumps", "dumped"} =>
    LET R == Apply(LAMBDA v : v, InOutputOrder)
        out == call.result
        n == Len(R)
    IN /\ (call.op = "dumps" /\ pc = "idle" /\ Len(results) = 1) =>
            /\ Len(DumpedRecords) = Len(install_requirements) + Len(invalid_lines)
                                      + Len(comment_lines)
            /\ \A k \in 1..Len(install_requirements) :
                 \E i \in 1..n : R[i] = [line_number |-> install_requirements[k].requirement_line.line_number,
                                         line |-> install_requirements[k].requirement_line.line,
                                         comment |-> FALSE]
            /\ \A k \in 1..Len(invalid_lines) :
                 \E i \in 1..n : R[i] = [line_number |-> invalid_lines[k].requirement_line.line_number,
                                         line |-> invalid_lines[k].requirement_line.line,
                                         comment |-> FALSE]
            /\ \A k \in 1..Len(comment_lines) :
                 \E i \in 1..n : R[i] = [line_number |-> comment_lines[k].line_number,
                                         line |-> comment_lines[k].line,
                                         comment |-> TRUE]
       /\ \A r \in 1..(n - 1) :
            \/ R[r].line_number < R[r + 1].line_number
            \/ R[r].line_number = R[r + 1].line_number /\ (R[r].comment => R[r + 1].comment)
       /\ Len(out) = Cardinality({r \in 1..n : ~IsAppended(R, r)})
       /\ \A j \in 1..Len(out) :
            LET on == SelectSeq([r \in 1..n |-> r], LAMBDA r : OutputLineOf(R, r) = j)
            IN out[j] = join([k \in 1..Len(on) |-> R[on[k]].line], SP)

\* dumps() returned a requirement and its trailing comment on one line, after
\* a comment of an earlier line on a line of its own
C16_Witness ==
  /\ call.op = "dumps"
  /\ Len(call.args) = 3
  /\ call.result = << <<HASH, SP, "c">>, <<"pkg", SP, HASH, SP, "note">> >>

(***************************************************************************)
(* C17  for a single file, parsing the text dumps() returned gives the     *)
(* same requirement, invalid and comment record texts and the same         *)
(* find_links, index_urls and options as the parse dumps() was called on   *)
(***************************************************************************)
\* the texts of the records of a built RequirementsFile
RecordTexts(built) ==
  [install_requirements |->
     [k \in 1..Len(built.install_requirements) |->
        built.install_requirements[k].requirement_line.line],
   invalid_lines |->
     [k \in 1..Len(built.invalid_lines) |->
        built.invalid_lines[k].requirement_line.line],
   comment_lines |->
     [k \in 1..Len(built.comment_lines) |-> built.comment_lines[k].line]]

\* the text of dumps() has been written and parsed: results[1] is the parse
\* dumps() was called on and results[2] the parse of its text
DumpedParsed == call.op = "dumped" /\ pc = "idle" /\ Len(results) = 2

\* C17: the parse of the dumped text ends with an object whose record texts,
\* find_links, index_urls and options are those of the first parse.
C17_Lossless ==
  DumpedParsed =>
    /\ results[2].exception = ""
    /\ RecordTexts(results[2]) = RecordTexts(results[1])
    /\ results[2].find_links = results[1].find_links
    /\ results[2].index_urls = results[1].index_urls
    /\ results[2].options = results[1].options

(***************************************************************************)
(* Hashes and InstallRequirement.hashes on their own                       *)
(***************************************************************************)
\* the values of the --hash options of a line
HashValues == {"sha256:d1", "sha256:d2", "sha384:d1"}

\* the requirement of the line: a name, or a URL with a hash in its fragment
HashedRequirements ==
  { <<"pkg">>,
    <<"https://e/p.tgz", HASH, "sha256=d1">>,
    <<"https://e/p.tgz", HASH, "sha512=d3">> }

\* the order of str on the digests
DigestRank(digest) ==
  CASE digest = "d1" -> 1
    [] digest = "d2" -> 2
    [] digest = "d3" -> 3

\* the keys kept in the order given
sorted_keys_as_given(keys) == keys

RECURSIVE sorted_keys(_)
\* sorted(keys) of Hashes.__init__
sorted_keys(keys) ==
  IF Len(keys) <= 1 THEN keys
  ELSE Apply(LAMBDA head :
               LET last == keys[Len(keys)]
                   p == Cardinality({i \in 1..Len(head) :
                                       DigestRank(head[i]) <= DigestRank(last)})
               IN SubSeq(head, 1, p) \o <<last>> \o SubSeq(head, p + 1, Len(head)),
             sorted_keys(SubSeq(keys, 1, Len(keys) - 1)))

\* Hashes(hashes): _allowed holds the sorted list of every algorithm
Hashes(hashes) == [allowed |-> [alg \in DOMAIN hashes |-> sorted_keys(hashes[alg])]]

\* Hashes.__bool__
Hashes_bool(self) == DOMAIN self.allowed # {}

\* Hashes.__eq__
Hashes_eq(self, other) == self.allowed = other.allowed

RECURSIVE SumLen(_, _)
SumLen(allowed, algs) ==
  IF algs = {} THEN 0
  ELSE LET alg == CHOOSE a \in algs : TRUE
       IN Len(allowed[alg]) + SumLen(allowed, algs \ {alg})

\* Hashes.digest_count
digest_count(self) == SumLen(self.allowed, DOMAIN self.allowed)

\* Hashes.__and__
Hashes_and(self, other) ==
  IF ~Hashes_bool(other) THEN self
  ELSE IF ~Hashes_bool(self) THEN other
  ELSE Hashes([alg \in DOMAIN other.allowed \cap DOMAIN self.allowed |->
                 SelectSeq(other.allowed[alg],
                           LAMBDA v : v \in Range(self.allowed[alg]))])

\* Link.hash_name and Link.hash of the link of a requirement: _hash_re
\* searched in the URL; "None" when the requirement has no link or the URL
\* no hash
link_hash(requirement_string) ==
  CASE "sha256=d1" \in Range(requirement_string) -> [hash_name |-> "sha256", hash |-> "d1"]
    [] "sha512=d3" \in Range(requirement_string) -> [hash_name |-> "sha512", hash |-> "d3"]
    [] OTHER -> [hash_name |-> "None", hash |-> "None"]

\* InstallRequirement.hashes(): good_hashes is a copy of the dict
\* hash_options whose lists are the lists of hash_options themselves, so that
\* setdefault(...).append(...) appends to the list of hash_options when the
\* algorithm of the link is a key of it.  returned is the Hashes and self the
\* requirement after the call.
hashes(self) ==
  LET link == link_hash(self.requirement_string)
      old == IF link.hash_name \in DOMAIN self.hash_options
             THEN self.hash_options[link.hash_name] ELSE <<>>
      good_hashes ==
        IF link.hash = "None" THEN self.hash_options
        ELSE [alg \in DOMAIN self.hash_options \cup {link.hash_name} |->
                IF alg = link.hash_name THEN Append(old, link.hash)
                ELSE self.hash_options[alg]]
  IN [returned |-> Hashes(good_hashes),
      self |-> IF link.hash # "None" /\ link.hash_name \in DOMAIN self.hash_options
               THEN [self EXCEPT !.hash_options = good_hashes]
               ELSE self]

RECURSIVE hash_options_text(_)
\* the text of the --hash options with the given values
hash_options_text(values) ==
  IF values = <<>> THEN <<>>
  ELSE <<SP, "--hash", SP, values[1]>> \o Apply(hash_options_text, Tail(values))

\* the InstallRequirement the line "requirement --hash v1 --hash v2 ..." gives
LineRequirement(requirement, values) ==
  Apply(LAMBDA line :
          Apply(LAMBDA decoded :
                  Apply(LAMBDA parsed :
                          [line |-> line, opts |-> decoded.opts,
                           built |-> Apply(install_req_from_parsed_requirement, parsed)],
                        handle_requirement_line(
                          ParsedLine(RequirementLine(line, 1, RootFile),
                                     decoded.args_str, decoded.opts, FALSE))),
                parse_line(line, FormatControl({}, {}), <<>>)),
        requirement \o hash_options_text(values))

\* the Hashes objects made of the --hash options of a line
LineHashes ==
  UNION {{Hashes(LineRequirement(<<"pkg">>, values).opts.hashes) :
            values \in [1..n -> HashValues]} : n \in 0..MaxHashes}

\* A line with a requirement and some --hash options was parsed and its
\* InstallRequirement built; call.args are the values of the --hash options.
InitHashes ==
  /\ fs = [f \in {FileA, FileB} |-> IF f = FileA THEN ContentA ELSE ContentB]
  /\ include_nested = FALSE
  /\ shared_features = <<>>
  /\ pc = "idle"
  /\ stack = <<>>
  /\ format_control = FormatControl({}, {})
  /\ options = NewOptions
  /\ finder = PackageFinder
  /\ invalid_lines = <<>>
  /\ comment_lines = <<>>
  /\ results = <<>>
  /\ log = <<>>
  /\ updates = 0
  /\ last_update = NoUpdate
  /\ \E requirement \in HashedRequirements : \E n \in 0..MaxHashes :
       \E values \in [1..n -> HashValues] :
         \E r \in {LineRequirement(requirement, values)} :
            /\ ~r.built.raised
            /\ install_requirements = <<r.built.req>>
            /\ line_opts = [line |-> r.line, opts |-> r.opts]
            /\ call = [op |-> "", args |-> values, result |-> <<>>]

\* Hashes(opts.hashes) of the options of the line
BuildHashes ==
  /\ call.op = ""
  /\ call' = [call EXCEPT !.op = "Hashes", !.result = <<Hashes(line_opts.opts.hashes)>>]
  /\ UNCHANGED <<fs, include_nested, shared_features, pc, stack, format_control,
                 options, finder, install_requirements, invalid_lines,
                 comment_lines, results, line_opts, log, updates, last_update>>

\* hashes() is called on the InstallRequirement once more
CallHashes ==
  /\ call.op \in {"", "hashes"} /\ Len(call.result) < MaxCalls
  /\ LET r == hashes(install_requirements[1])
     IN /\ install_requirements' = <<r.self>>
        /\ call' = [call EXCEPT !.op = "hashes", !.result = Append(@, r.returned)]
  /\ UNCHANGED <<fs, include_nested, shared_features, pc, stack, format_control,
                 options, finder, invalid_lines, comment_lines, results,
                 line_opts, log, updates, last_update>>

\* a & b: a is the Hashes of the --hash options of the line, or its
\* intersection with the Hashes of another line, and b the Hashes of the
\* --hash options of another line
CallAnd ==
  /\ call.op = ""
  /\ \E own \in {Hashes(line_opts.opts.hashes)} : \E others \in {LineHashes} :
       \E a \in {own} \cup {Hashes_and(own, other) : other \in others} :
         \E b \in others :
           call' = [op |-> "and", args |-> <<a, b>>, result |-> <<Hashes_and(a, b)>>]
  /\ UNCHANGED <<fs, include_nested, shared_features, pc, stack, format_control,
                 options, finder, install_requirements, invalid_lines,
                 comment_lines, results, line_opts, log, updates, last_update>>

NextHashes == BuildHashes \/ CallHashes \/ CallAnd

SpecHashes == InitHashes /\ [][NextHashes]_vars

(***************************************************************************)
(* C18  hashes() called any number of times leaves hash_options unchanged  *)
(* and returns an equal Hashes each time, also when the requirement has    *)
(* --hash options and a link hash of the same algorithm                    *)
(***************************************************************************)
\* C18: after any number of hashes() calls on the requirement of the line,
\* its hash_options are the hashes the line's options gave, and the Hashes
\* returned are equal and have the same digest_count.
C18_NeverMutated ==
  call.op = "hashes" =>
    /\ install_requirements[1].hash_options = line_opts.opts.hashes
    /\ \A i, j \in 1..Len(call.result) :
         /\ Hashes_eq(call.result[i], call.result[j])
         /\ digest_count(call.result[i]) = digest_count(call.result[j])

(***************************************************************************)
(* C19  the --hash=algo:digest options of a line merge into one mapping    *)
(* from the algorithm to the list of all its digests, and Hashes built     *)
(* from the same digests in any order are equal                            *)
(***************************************************************************)
\* the digests the values give for an algorithm, in the order given
DigestsGiven(values, algo) ==
  LET own == SelectSeq(values, LAMBDA v : hash_split(v).algo = algo)
  IN [k \in 1..Len(own) |-> hash_split(own[k]).digest]

\* the values in the order p
Reordered(values, p) == [k \in 1..Len(values) |-> values[p[k]]]

\* C19: the hashes the options of the line give map every algorithm named to
\* all the digests given for it, in the order given, and no other algorithm;
\* the Hashes built from them holds as many digests as there are --hash
\* options, per algorithm the same digests in ascending order, and equals
\* the Hashes built from the line with the options in any other order.
C19_MergedHashes ==
  call.op = "Hashes" =>
    LET values == call.args
        merged == line_opts.opts.hashes
        H == call.result[1]
        n == Len(values)
    IN /\ DOMAIN merged = {hash_split(values[k]).algo : k \in 1..n}
       /\ \A algo \in DOMAIN merged : merged[algo] = DigestsGiven(values, algo)
       /\ digest_count(H) = n
       /\ DOMAIN H.allowed = DOMAIN merged
       /\ \A algo \in DOMAIN merged :
            /\ Len(H.allowed[algo]) = Len(merged[algo])
            /\ \A k \in 1..(Len(H.allowed[algo]) - 1) :
                 DigestRank(H.allowed[algo][k]) <= DigestRank(H.allowed[algo][k + 1])
            /\ \A d \in Range(merged[algo]) :
                 Cardinality({k \in 1..Len(merged[algo]) : merged[algo][k] = d})
                   = Cardinality({k \in 1..Len(merged[algo]) : H.allowed[algo][k] = d})
       /\ \A p \in [1..n -> 1..n] :
            (\A i, j \in 1..n : p[i] = p[j] => i = j) =>
              Hashes_eq(Hashes(LineRequirement(<<"pkg">>, Reordered(values, p)).opts.hashes), H)

\* two sha256 digests, the greater given first, merged into one list of two
\* in the order given, and the Hashes built holds them in ascending order
C19_Witness ==
  /\ call.op = "Hashes"
  /\ call.args = <<"sha256:d2", "sha256:d1">>
  /\ line_opts.opts.hashes = [a \in {"sha256"} |-> <<"d2", "d1">>]
  /\ call.result[1].allowed = [a \in {"sha256"} |-> <<"d1", "d2">>]
  /\ digest_count(call.result[1]) = 2

(***************************************************************************)
(* C20  a & b is the other operand when one is empty, else the algorithms  *)
(* of both with the digests of both; a & b = b & a and a & a = a           *)
(***************************************************************************)
\* C20: when a & b has returned: if b holds no algorithm the result is a, if
\* a holds none it is b; else it holds the algorithms both hold, each with
\* the digests both hold for it; it equals b & a, and a & a equals a.
C20_Intersection ==
  call.op = "and" =>
    LET a == call.args[1]
        b == call.args[2]
        r == call.result[1]
    IN /\ DOMAIN b.allowed = {} => r = a
       /\ DOMAIN a.allowed = {} => r = b
       /\ (DOMAIN a.allowed # {} /\ DOMAIN b.allowed # {}) =>
            /\ DOMAIN r.allowed = DOMAIN a.allowed \cap DOMAIN b.allowed
            /\ \A alg \in DOMAIN r.allowed :
                 Range(r.allowed[alg]) = Range(a.allowed[alg]) \cap Range(b.allowed[alg])
       /\ Hashes_eq(r, Hashes_and(b, a))
       /\ Hashes_eq(Hashes_and(a, a), a)

(***************************************************************************)
(* Hashes.check_against_chunks and MissingHashes on their own              *)
(***************************************************************************)
\* the names hashlib.new accepts
hashlib_names == {"md5", "sha1", "sha224", "sha256", "sha384", "sha512"}

\* the bytes of the streams and the chunks they come in
Bytes == {"x", "y"}
Chunks == UNION {[1..n -> Bytes] : n \in 1..2}

\* read_chunks(file, size): DEFAULT_BUFFER_SIZE is 2 bytes here
DEFAULT_BUFFER_SIZE == 2

\* hashlib.new(name) fed with data: its hexdigest()
hexdigest(name, data) ==
  CASE data = <<"x", "y">> -> IF name = "sha256" THEN "d1" ELSE "d2"
    [] data = <<"x">> -> IF name = "sha256" THEN "d2" ELSE "d3"
    [] OTHER -> IF name = "sha256" THEN "d3" ELSE "d1"

\* what the hash objects hold when only the last chunk was fed to them
fed_last_chunk(chunks) == IF chunks = <<>> THEN <<>> ELSE chunks[Len(chunks)]

\* what the hash objects hold after hsh.update(chunk) for every chunk
fed(chunks) == Concat(chunks)

RECURSIVE read_chunks(_, _)
\* read_chunks(file, size) for a file that holds data
read_chunks(data, size) ==
  IF data = <<>> THEN <<>>
  ELSE IF Len(data) <= size THEN <<data>>
  ELSE <<SubSeq(data, 1, size)>>
       \o Apply(LAMBDA rest : read_chunks(rest, size), SubSeq(data, size + 1, Len(data)))

\* MissingHashes(): Hashes({FAVORITE_HASH: []}) whose _raise is overridden
FAVORITE_HASH == "sha256"
MissingHashes == Hashes([alg \in {FAVORITE_HASH} |-> <<>>])

\* check_against_chunks(chunks) on the Hashes self; missing tells that self
\* is a MissingHashes.  raised is "" when the call returns, and gots holds
\* the hexdigest of every hash object an error carries.
check_against_chunks(self, missing, chunks) ==
  IF \E hash_name \in DOMAIN self.allowed : hash_name \notin hashlib_names
  THEN [raised |-> "InstallationError", message |-> "Unknown hash name",
        gots |-> EmptyHashes]
  ELSE LET gots == [hash_name \in DOMAIN self.allowed |-> hexdigest(hash_name, fed(chunks))]
       IN IF \E hash_name \in DOMAIN gots : gots[hash_name] \in Range(self.allowed[hash_name])
          THEN [raised |-> "", message |-> "", gots |-> EmptyHashes]
          ELSE IF missing
          THEN [raised |-> "HashMissing", message |-> gots[FAVORITE_HASH],
                gots |-> [hash_name \in {FAVORITE_HASH} |-> gots[FAVORITE_HASH]]]
          ELSE [raised |-> "HashMismatch", message |-> "", gots |-> gots]

\* check_against_file(file) on a file that holds data
check_against_file(self, missing, data) ==
  check_against_chunks(self, missing, read_chunks(data, DEFAULT_BUFFER_SIZE))

\* the verifiers checked: the Hashes of the --hash options of a line, Hashes
\* with an algorithm name hashlib does not know, and MissingHashes()
Verifiers ==
  {[missing |-> FALSE, hashes |-> h] : h \in LineHashes}
  \cup {[missing |-> FALSE, hashes |-> Hashes([alg \in {"bogus"} |-> <<"d1">>])],
        [missing |-> FALSE, hashes |-> Hashes([alg \in {"sha256", "bogus"} |-> <<"d1">>])],
        [missing |-> TRUE, hashes |-> MissingHashes]}

\* a verifier and a stream cut into chunks
InitCheck ==
  /\ Idle
  /\ format_control = FormatControl({}, {})
  /\ \E verifier \in Verifiers : \E n \in 0..MaxChunks : \E chunks \in [1..n -> Chunks] :
       call = [op |-> "", args |-> [verifier |-> verifier, chunks |-> chunks],
               result |-> <<>>]

\* verifier.check_against_chunks(chunks)
CallCheckAgainstChunks ==
  /\ call.op = ""
  /\ call' = [call EXCEPT !.op = "check_against_chunks",
                          !.result = check_against_chunks(call.args.verifier.hashes,
                                                          call.args.verifier.missing,
                                                          call.args.chunks)]
  /\ UNCHANGED <<fs, include_nested, shared_features, pc, stack, format_control,
                 options, finder, install_requirements, invalid_lines,
                 comment_lines, results, line_opts, log, updates, last_update>>

\* verifier.check_against_file(file) for a file that holds the same stream
CallCheckAgainstFile ==
  /\ call.op = ""
  /\ call' = [call EXCEPT !.op = "check_against_file",
                          !.result = check_against_file(call.args.verifier.hashes,
                                                        call.args.verifier.missing,
                                                        Concat(call.args.chunks))]
  /\ UNCHANGED <<fs, include_nested, shared_features, pc, stack, format_control,
                 options, finder, install_requirements, invalid_lines,
                 comment_lines, results, line_opts, log, updates, last_update>>

NextCheck == CallCheckAgainstChunks \/ CallCheckAgainstFile

SpecCheck == InitCheck /\ [][NextCheck]_vars

(***************************************************************************)
(* C21  check_against_chunks succeeds exactly when the digest of the whole *)
(* stream is accepted for a held algorithm, else raises hash-mismatch with *)
(* the digest of every held algorithm (MissingHashes: hash-missing with    *)
(* the sha256 digest), however the stream is cut into chunks               *)
(***************************************************************************)
Checked == call.op \in {"check_against_chunks", "check_against_file"}

\* the whole stream of a check
Stream == Concat(call.args.chunks)

\* a held algorithm accepts the digest of the whole stream
StreamAccepted ==
  \E alg \in DOMAIN call.args.verifier.hashes.allowed :
    \E k \in 1..Len(call.args.verifier.hashes.allowed[alg]) :
      call.args.verifier.hashes.allowed[alg][k] = hexdigest(alg, Stream)

\* what the claim says of a check that does not succeed
MismatchRaised ==
  IF call.args.verifier.missing
  THEN /\ call.result.raised = "HashMissing"
       /\ call.result.message = hexdigest("sha256", Stream)
  ELSE /\ call.result.raised = "HashMismatch"
       /\ call.result.gots = [alg \in DOMAIN call.args.verifier.hashes.allowed |->
                                hexdigest(alg, Stream)]

\* C21 as claimed: a check returns when a held algorithm accepts the digest
\* of the whole stream, and else raises the mismatch.
C21_ChecksStream ==
  Checked => IF StreamAccepted THEN call.result.raised = "" ELSE MismatchRaised

\* a verifier holds an algorithm hashlib does not know
UnknownHeld == \E alg \in DOMAIN call.args.verifier.hashes.allowed : alg \notin hashlib_names

\* C21 amended: a check of a verifier that holds an unknown algorithm raises
\* InstallationError whatever the stream; any other check returns when a
\* held algorithm accepts the digest of the whole stream and else raises the
\* mismatch.
C21_ChecksKnownStream ==
  Checked =>
    IF UnknownHeld
    THEN call.result.raised = "InstallationError" /\ call.result.message = "Unknown hash name"
    ELSE IF StreamAccepted THEN call.result.raised = "" ELSE MismatchRaised

\* a stream of three bytes came in two chunks, its first two bytes alone have
\* an accepted digest, and the check raised the mismatch with the digest of
\* the whole stream
C21_Witness ==
  /\ call.op = "check_against_chunks"
  /\ call.args.chunks = << <<"x">>, <<"y", "x">> >>
  /\ call.args.verifier.hashes.allowed = [alg \in {"sha256"} |-> <<"d1">>]
  /\ call.result.raised = "HashMismatch"
  /\ call.result.gots = [alg \in {"sha256"} |-> "d3"]

(***************************************************************************)
(* C22  verifying any stream against a Hashes that holds no algorithm      *)
(* succeeds                                                                *)
(***************************************************************************)
\* C22: a check of a verifier that holds no algorithm returns.
C22_EmptyAllowsAnything ==
  (Checked /\ ~Hashes_bool(call.args.verifier.hashes)) => call.result.raised = ""

(***************************************************************************)
(* Link, _clean_link and links_equivalent on their own                     *)
(***************************************************************************)
\* A URL is held as urllib.parse.urlsplit gives it: the scheme, the netloc as
\* atoms ("@" is an atom of its own), the path, and the query and the
\* fragment as their "&"-separated parts: <<key, value>> for "key=value"
\* (the value may be "") and <<key>> for a part without "=".
Url(scheme, netloc, path, query, fragment) ==
  [scheme |-> scheme, netloc |-> netloc, path |-> path, query |-> query,
   fragment |-> fragment]

_SUPPORTED_HASHES == {"sha1", "sha224", "sha384", "sha256", "sha512", "md5"}

\* netloc.rsplit("@", 1)[-1]
after_last_at(netloc) ==
  IF \A i \in 1..Len(netloc) : netloc[i] # "@" THEN netloc
  ELSE LET k == CHOOSE i \in 1..Len(netloc) :
                  netloc[i] = "@" /\ \A j \in (i + 1)..Len(netloc) : netloc[j] # "@"
       IN SubSeq(netloc, k + 1, Len(netloc))

\* the parts urllib.parse.parse_qs keeps: those with a value that is not blank
kept_parts(parts) == SelectSeq(parts, LAMBDA part : Len(part) = 2 /\ part[2] # "")

\* parse_qs that keeps only the first value of every key
parse_qs_first_value(parts) ==
  LET kept == kept_parts(parts)
  IN [key \in {kept[i][1] : i \in 1..Len(kept)} |->
        LET own == SelectSeq(kept, LAMBDA part : part[1] = key)
        IN <<own[1][2]>>]

\* urllib.parse.parse_qs(text): every key with the list of its values in the
\* order they come in; blank values are dropped
parse_qs(parts) ==
  LET kept == kept_parts(parts)
  IN [key \in {kept[i][1] : i \in 1..Len(kept)} |->
        LET own == SelectSeq(kept, LAMBDA part : part[1] = key)
        IN [k \in 1..Len(own) |-> own[k][2]]]

\* _clean_link(link)
_clean_link(link) ==
  LET parsed == link
      netloc == after_last_at(parsed.netloc)
      fragment == parse_qs(parsed.fragment)
  IN [parsed |-> [scheme |-> parsed.scheme,
                  netloc |-> IF parsed.scheme = "file" /\ netloc = <<>>
                             THEN <<"localhost">> ELSE netloc,
                  path |-> parsed.path],
      query |-> parse_qs(parsed.query),
      subdirectory |-> IF "subdirectory" \in DOMAIN fragment
                       THEN fragment["subdirectory"][1] ELSE "",
      hashes |-> [k \in _SUPPORTED_HASHES \cap DOMAIN fragment |-> fragment[k][1]]]

\* links_equivalent(link1, link2)
links_equivalent(link1, link2) == _clean_link(link1) = _clean_link(link2)

\* the network locations, the queries and the fragments of the links compared
LinkNetlocs ==
  { <<>>, <<"h">>, <<"g">>, <<"localhost">>, <<"u", "@", "h">>, <<"u", "@">>,
    <<"u", "@", "v", "@", "h">> }
QueryParts == { <<"a", "1">>, <<"a", "2">>, <<"b", "2">>, <<"a", "">>, <<"b">> }
FragmentParts ==
  { <<"egg", "x">>, <<"subdirectory", "s">>, <<"subdirectory", "t">>,
    <<"sha256", "aa">>, <<"sha256", "bb">>, <<"other", "1">> }
PartLists(parts) == UNION {[1..n -> parts] : n \in 0..MaxPairs}

\* Link(url) for two URLs that differ at most in their scheme, netloc and
\* path, or in their queries, or in their fragments
InitLinks ==
  /\ Idle
  /\ format_control = FormatControl({}, {})
  /\ \/ \E s1, s2 \in {"https", "file"} : \E n1, n2 \in LinkNetlocs : \E p1 \in {"/p", "/q"} :
          call = [op |-> "", result |-> <<>>,
                  args |-> <<Url(s1, n1, p1, <<>>, <<>>), Url(s2, n2, "/p", <<>>, <<>>)>>]
     \/ \E q1, q2 \in PartLists(QueryParts) :
          call = [op |-> "", result |-> <<>>,
                  args |-> <<Url("https", <<"h">>, "/p", q1, <<>>),
                             Url("https", <<"h">>, "/p", q2, <<>>)>>]
     \/ \E f1, f2 \in PartLists(FragmentParts) :
          call = [op |-> "", result |-> <<>>,
                  args |-> <<Url("https", <<"h">>, "/p", <<>>, f1),
                             Url("https", <<"h">>, "/p", <<>>, f2)>>]

\* _clean_link(link1)
CallCleanLink ==
  /\ call.op = ""
  /\ call' = [call EXCEPT !.op = "_clean_link", !.result = _clean_link(call.args[1])]
  /\ UNCHANGED <<fs, include_nested, shared_features, pc, stack, format_control,
                 options, finder, install_requirements, invalid_lines,
                 comment_lines, results, line_opts, log, updates, last_update>>

\* links_equivalent(link1, link2)
CallLinksEquivalent ==
  /\ call.op = ""
  /\ call' = [call EXCEPT !.op = "links_equivalent",
                          !.result = links_equivalent(call.args[1], call.args[2])]
  /\ UNCHANGED <<fs, include_nested, shared_features, pc, stack, format_control,
                 options, finder, install_requirements, invalid_lines,
                 comment_lines, results, line_opts, log, updates, last_update>>

NextLinks == CallCleanLink \/ CallLinksEquivalent

SpecLinks == InitLinks /\ [][NextLinks]_vars

(***************************************************************************)
(* C23  links_equivalent holds exactly when, auth dropped and an empty     *)
(* file host read as localhost, scheme, host and path are equal, the       *)
(* queries are equal as mappings from key to ordered values, and the       *)
(* subdirectory and the hash fragments are equal; it is reflexive and      *)
(* symmetric and holds for equal URLs                                      *)
(***************************************************************************)
\* the host of a link: its netloc after the last "@", localhost for the
\* empty host of a file: URL
HostOf(link) ==
  LET at == {i \in 1..Len(link.netloc) : link.netloc[i] = "@"}
      host == IF at = {} THEN link.netloc
              ELSE SubSeq(link.netloc, (CHOOSE i \in at : \A j \in at : j <= i) + 1,
                          Len(link.netloc))
  IN IF link.scheme = "file" /\ host = <<>> THEN <<"localhost">> ELSE host

\* the values that are not blank of a key among the parts, in their order
ValuesOf(parts, key) ==
  LET own == SelectSeq(parts, LAMBDA part : part[1] = key /\ Len(part) = 2)
      values == [k \in 1..Len(own) |-> own[k][2]]
  IN SelectSeq(values, LAMBDA v : v # "")

\* the first value of a key among the parts, <<>> when it has none
FirstValueOf(parts, key) ==
  IF ValuesOf(parts, key) = <<>> THEN <<>> ELSE <<ValuesOf(parts, key)[1]>>

PartKeys(parts) == {parts[i][1] : i \in 1..Len(parts)}

\* C23: when links_equivalent has returned, its result is true exactly when
\* the links agree on scheme, host and path, on the ordered values of every
\* query key, on the first subdirectory and on the first value of every
\* supported hash of the fragment; it is the result for the links swapped,
\* every link is equivalent to itself, and equal URLs are equivalent.
C23_LinksEquivalent ==
  call.op = "links_equivalent" =>
    LET a == call.args[1]
        b == call.args[2]
    IN /\ call.result <=>
            /\ a.scheme = b.scheme
            /\ HostOf(a) = HostOf(b)
            /\ a.path = b.path
            /\ \A key \in PartKeys(a.query) \cup PartKeys(b.query) :
                 ValuesOf(a.query, key) = ValuesOf(b.query, key)
            /\ FirstValueOf(a.fragment, "subdirectory") = FirstValueOf(b.fragment, "subdirectory")
            /\ \A alg \in _SUPPORTED_HASHES :
                 FirstValueOf(a.fragment, alg) = FirstValueOf(b.fragment, alg)
       /\ call.result = links_equivalent(b, a)
       /\ links_equivalent(a, a)
       /\ a = b => call.result

\* two links whose queries hold the same keys in another order were found
\* equivalent
C23_Witness ==
  /\ call.op = "links_equivalent"
  /\ call.args[1].query = << <<"a", "1">>, <<"b", "2">> >>
  /\ call.args[2].query = << <<"b", "2">>, <<"a", "1">> >>
  /\ call.result = TRUE

(***************************************************************************)
(* Wheel on its own                                                        *)
(***************************************************************************)
\* A file name is a sequence of atoms; "-", "." and "_" are atoms of their
\* own and no other atom holds one of them.
DigitWords == {"0", "1", "2"}

Min(S) == CHOOSE x \in S : \A y \in S : x <= y

\* the places of the "-" of a file name, and those after place x
HyphenPlaces(filename) == {i \in 1..Len(filename) : filename[i] = "-"}

Above(H, x) == {h \in H : h > x}

\* (-(?P<build>\d[^-]*?))? after the "-" at b: a nonempty text with no "-"
\* that starts with a digit and is followed by a "-"
has_build(filename, H, b) ==
  /\ Above(H, b) # {}
  /\ Min(Above(H, b)) > b + 1
  /\ filename[b + 1] \in DigitWords

\* the place of the "-" before pyver
pyver_start(H, b, bt) == IF bt THEN Min(Above(H, b)) ELSE b

\* -(?P<pyver>.+?)-(?P<abi>.+?)-(?P<plat>.+?)\.whl$ from the "-" at s, with
\* the "-" after pyver at c and the one after abi at d
tags_match(filename, H, s, c, d) ==
  c \in H /\ d \in H /\ c > s + 1 /\ d > c + 1 /\ d < Len(filename) - 2

\* the whole of the first alternative, with the "-" after name at a and the
\* one after ver at b, with a build tag (bt) or without
whl_match(filename, H, a, b, bt) ==
  /\ a > 1 /\ b > a
  /\ bt => has_build(filename, H, b)
  /\ \E c \in Above(H, pyver_start(H, b, bt)) : \E d \in Above(H, c) :
       tags_match(filename, H, pyver_start(H, b, bt), c, d)

NoMatch ==
  [matched |-> FALSE, alt |-> "", name |-> <<>>, ver |-> <<>>,
   build |-> <<>>, pyver |-> <<>>, abi |-> <<>>, plat |-> <<>>]

\* the groups of the first alternative: a group that ends with "?" takes the
\* shortest text that lets the rest match, and the build tag is taken when
\* it can be
whl_groups(filename, H) ==
  LET n == Len(filename)
  IN Apply(LAMBDA a :
       Apply(LAMBDA b :
         Apply(LAMBDA bt :
           Apply(LAMBDA s :
             Apply(LAMBDA c :
               Apply(LAMBDA d :
                       [matched |-> TRUE, alt |-> "whl",
                        name |-> SubSeq(filename, 1, a - 1),
                        ver |-> SubSeq(filename, a + 1, b - 1),
                        build |-> IF bt THEN SubSeq(filename, b + 1, s - 1) ELSE <<>>,
                        pyver |-> SubSeq(filename, s + 1, c - 1),
                        abi |-> SubSeq(filename, c + 1, d - 1),
                        plat |-> SubSeq(filename, d + 1, n - 2)],
                     Min({x \in Above(H, c) : tags_match(filename, H, s, c, x)})),
               Min({x \in Above(H, s) : \E d \in Above(H, x) : tags_match(filename, H, s, x, d)})),
             pyver_start(H, b, bt)),
           whl_match(filename, H, a, b, TRUE)),
         Min({x \in Above(H, a) : \E bt \in BOOLEAN : whl_match(filename, H, a, x, bt)})),
       Min({x \in H : \E b \in Above(H, x) : \E bt \in BOOLEAN : whl_match(filename, H, x, b, bt)}))

\* wheel_file_re.match(filename): whether it matches, which alternative
\* ("whl" or "dist-info") matched, and the groups of the match.  The second
\* alternative is namever followed by ".dist-info" alone.
wheel_file_re_match(filename, H) ==
  LET n == Len(filename)
      whl == n >= 2 /\ SubSeq(filename, n - 1, n) = <<".", "whl">>
      dist_info == n >= 4 /\ SubSeq(filename, n - 3, n) = <<".", "dist", "-", "info">>
      Ds == {a \in H : a > 1 /\ a <= n - 4}
  IN IF dist_info
     THEN IF Ds = {} THEN NoMatch
          ELSE [matched |-> TRUE, alt |-> "dist-info",
                name |-> SubSeq(filename, 1, Min(Ds) - 1),
                ver |-> SubSeq(filename, Min(Ds) + 1, n - 4),
                build |-> <<>>, pyver |-> <<>>, abi |-> <<>>, plat |-> <<>>]
     ELSE IF whl /\ \E a \in H : \E b \in Above(H, a) : \E bt \in BOOLEAN :
                       whl_match(filename, H, a, b, bt)
     THEN whl_groups(filename, H)
     ELSE NoMatch

wheel_file_re(filename) ==
  Apply(LAMBDA H : wheel_file_re_match(filename, H), HyphenPlaces(filename))

\* text.replace("_", "-")
replace_underscore(text) == [i \in 1..Len(text) |-> IF text[i] = "_" THEN "-" ELSE text[i]]

\* packaging.tags.Tag
Tag(interpreter, abi, platform) ==
  [interpreter |-> interpreter, abi |-> abi, platform |-> platform]

\* Wheel(filename): the Wheel, or the error raised.  The groups pyver, abi
\* and plat are None when the alternative that matched is ".dist-info", and
\* None has no split.  A build_tag of <<>> is None.
Wheel(filename) ==
  Apply(LAMBDA wheel_info :
          IF ~wheel_info.matched
          THEN [raised |-> "InvalidWheelFilename", wheel |-> <<>>]
          ELSE IF wheel_info.alt = "dist-info"
          THEN [raised |-> "AttributeError", wheel |-> <<>>]
          ELSE [raised |-> "",
                wheel |-> [filename |-> filename,
                           name |-> replace_underscore(wheel_info.name),
                           version |-> replace_underscore(wheel_info.ver),
                           build_tag |-> wheel_info.build,
                           file_tags |-> {Tag(x, y, z) :
                                            x \in Range(split(wheel_info.pyver, ".")),
                                            y \in Range(split(wheel_info.abi, ".")),
                                            z \in Range(split(wheel_info.plat, "."))}]],
        wheel_file_re(filename))

\* the segments and the endings the file names are made of
WheelSegments == { <<"my", "_", "pkg">>, <<"1">>, <<"py2", ".", "py3">> }
WheelEndings == { <<".", "whl">>, <<".", "dist", "-", "info">>, <<>> }

\* a file name: segments joined by "-", and an ending
InitWheel ==
  /\ Idle
  /\ format_control = FormatControl({}, {})
  /\ \E n \in 1..MaxSegments : \E segments \in [1..n -> WheelSegments] :
       \E ending \in WheelEndings :
         call = [op |-> "", args |-> join(segments, "-") \o ending, result |-> <<>>]

\* Wheel(filename)
NewWheel ==
  /\ call.op = ""
  /\ call' = [call EXCEPT !.op = "Wheel", !.result = Wheel(call.args)]
  /\ UNCHANGED <<fs, include_nested, shared_features, pc, stack, format_control,
                 options, finder, install_requirements, invalid_lines,
                 comment_lines, results, line_opts, log, updates, last_update>>

NextWheel == NewWheel

SpecWheel == InitWheel /\ [][NextWheel]_vars

(***************************************************************************)
(* C24  Wheel(filename) raises the invalid-wheel-filename error and no     *)
(* other for a file name that does not conform to                          *)
(* name-version(-build)-pyver-abi-plat.whl, and for a conforming one gives *)
(* name, version, build tag and the cross product of the tag components    *)
(***************************************************************************)
\* the ways to read the file name as name-version(-build)-pyver-abi-plat.whl:
\* the places of the "-" after name, version, build (0 without build tag),
\* pyver and abi, every part but the version being nonempty and the build
\* tag starting with a digit and holding no "-"
Readings(filename) ==
  LET n == Len(filename)
      H == {i \in 1..n : filename[i] = "-"}
      After(x) == {h \in H : h > x}
      Max(x, y) == IF x > y THEN x ELSE y
      Ordered ==
        UNION {UNION {UNION {UNION {{<<a, b, e, c, d>> : d \in After(c)} :
                 c \in After(Max(b, e))} : e \in {0} \cup After(b)} :
                 b \in After(a)} : a \in H}
  IN {r \in Ordered :
        /\ n >= 2 /\ filename[n - 1] = "." /\ filename[n] = "whl"
        /\ r[1] > 1
        /\ r[4] > (IF r[3] = 0 THEN r[2] ELSE r[3]) + 1
        /\ r[5] > r[4] + 1
        /\ r[5] < n - 2
        /\ r[3] # 0 => /\ r[3] > r[2] + 1
                       /\ filename[r[2] + 1] \in DigitWords
                       /\ \A k \in (r[2] + 1)..(r[3] - 1) : filename[k] # "-"}

\* the components of a tag group: its pieces between the dots
Components(group) ==
  LET dots == {0, Len(group) + 1} \cup {i \in 1..Len(group) : group[i] = "."}
  IN {SubSeq(group, i + 1, j - 1) :
        <<i, j>> \in {p \in dots \X dots : p[1] < p[2] /\ \A k \in dots : ~(p[1] < k /\ k < p[2])}}

\* C24: when Wheel(filename) has ended: a file name with no reading raised
\* InvalidWheelFilename; a file name with a reading gave a Wheel whose name,
\* version and build tag are those of one reading, whose file name is the
\* one given and whose tags are all the combinations of the components of
\* that reading's pyver, abi and plat.
C24_FailsClosed ==
  call.op = "Wheel" =>
    LET filename == call.args
        n == Len(filename)
        w == call.result.wheel
    IN IF Readings(filename) = {}
       THEN call.result.raised = "InvalidWheelFilename"
       ELSE /\ call.result.raised = ""
            /\ w.filename = filename
            /\ \E r \in Readings(filename) :
                 LET s == IF r[3] = 0 THEN r[2] ELSE r[3]
                 IN /\ w.name = replace_underscore(SubSeq(filename, 1, r[1] - 1))
                    /\ w.version = replace_underscore(SubSeq(filename, r[1] + 1, r[2] - 1))
                    /\ w.build_tag = IF r[3] = 0 THEN <<>>
                                     ELSE SubSeq(filename, r[2] + 1, r[3] - 1)
                    /\ w.file_tags =
                         {[interpreter |-> x, abi |-> y, platform |-> z] :
                            x \in Components(SubSeq(filename, s + 1, r[4] - 1)),
                            y \in Components(SubSeq(filename, r[4] + 1, r[5] - 1)),
                            z \in Components(SubSeq(filename, r[5] + 1, n - 2))}

(***************************************************************************)
(* The tag lookups of a Wheel                                              *)
(***************************************************************************)
\* the wheels looked up and the tags of the lists of supported tags
TagWheels ==
  { <<"foo", "-", "1", "-", "py2", ".", "py3", "-", "none", "-", "any", ".", "whl">>,
    <<"foo", "-", "1", "-", "cp3", "-", "abi3", "-", "linux", ".", "whl">> }

SupportedTags ==
  { Tag(<<"py3">>, <<"none">>, <<"any">>), Tag(<<"py2">>, <<"none">>, <<"any">>),
    Tag(<<"cp3">>, <<"abi3">>, <<"linux">>), Tag(<<"cp2">>, <<"abi3">>, <<"linux">>) }

\* tags.index(tag) that gives the last place of the tag
index_last(tags, tag) ==
  CHOOSE i \in 0..(Len(tags) - 1) :
    tags[i + 1] = tag /\ \A j \in 0..(Len(tags) - 1) : tags[j + 1] = tag => j <= i

\* tags.index(tag): the first place of the tag, counted from 0
index(tags, tag) ==
  CHOOSE i \in 0..(Len(tags) - 1) :
    tags[i + 1] = tag /\ \A j \in 0..(Len(tags) - 1) : tags[j + 1] = tag => i <= j

\* min(...) of a generator: ValueError for an empty one (value -1 stands for
\* no value)
min(values) ==
  IF values = {} THEN [raised |-> "ValueError", value |-> -1]
  ELSE [raised |-> "", value |-> Min(values)]

support_index_min(self, tags) ==
  min({index(tags, tag) : tag \in {t \in self.file_tags : t \in Range(tags)}})

find_most_preferred_tag(self, tags, tag_to_priority) ==
  min({tag_to_priority[tag] : tag \in {t \in self.file_tags : t \in DOMAIN tag_to_priority}})

supported(self, tags) == ~(self.file_tags \cap Range(tags) = {})

\* the mappings that give every tag of the list one of its places in it
Priorities(tags) ==
  {m \in [Range(tags) -> 0..(Len(tags) - 1)] : \A t \in Range(tags) : tags[m[t] + 1] = t}

\* a wheel, a list of supported tags, most preferred first, and a mapping
\* from the tags of the list to their priorities
InitTags ==
  /\ Idle
  /\ format_control = FormatControl({}, {})
  /\ \E filename \in TagWheels : \E n \in 0..MaxTags :
       \E tags \in [1..n -> SupportedTags] : \E tag_to_priority \in Priorities(tags) :
         call = [op |-> "",
                 args |-> [self |-> Wheel(filename).wheel, tags |-> tags,
                           tag_to_priority |-> tag_to_priority],
                 result |-> <<>>]

CallSupportIndexMin ==
  /\ call.op = ""
  /\ call' = [call EXCEPT !.op = "support_index_min",
                          !.result = support_index_min(call.args.self, call.args.tags)]
  /\ UNCHANGED <<fs, include_nested, shared_features, pc, stack, format_control,
                 options, finder, install_requirements, invalid_lines,
                 comment_lines, results, line_opts, log, updates, last_update>>

CallFindMostPreferredTag ==
  /\ call.op = ""
  /\ call' = [call EXCEPT !.op = "find_most_preferred_tag",
                          !.result = find_most_preferred_tag(call.args.self, call.args.tags,
                                                             call.args.tag_to_priority)]
  /\ UNCHANGED <<fs, include_nested, shared_features, pc, stack, format_control,
                 options, finder, install_requirements, invalid_lines,
                 comment_lines, results, line_opts, log, updates, last_update>>

CallSupported ==
  /\ call.op = ""
  /\ call' = [call EXCEPT !.op = "supported",
                          !.result = [raised |-> "",
                                      value |-> supported(call.args.self, call.args.tags)]]
  /\ UNCHANGED <<fs, include_nested, shared_features, pc, stack, format_control,
                 options, finder, install_requirements, invalid_lines,
                 comment_lines, results, line_opts, log, updates, last_update>>

NextTags == CallSupportIndexMin \/ CallFindMostPreferredTag \/ CallSupported

SpecTags == InitTags /\ [][NextTags]_vars

(***************************************************************************)
(* C25  support_index_min is the smallest index in the list of a tag of    *)
(* the wheel and fails when there is none; find_most_preferred_tag with a  *)
(* mapping from every listed tag to its position returns the same and      *)
(* fails in the same cases; supported is true exactly when they do not     *)
(* fail                                                                    *)
(***************************************************************************)
\* the indexes, from 0, at which the list holds a tag of the wheel
MatchingIndexes ==
  {i \in 0..(Len(call.args.tags) - 1) : call.args.tags[i + 1] \in call.args.self.file_tags}

\* what the claim gives for both lookups
SmallestMatchingIndex ==
  IF MatchingIndexes = {} THEN [raised |-> "ValueError", value |-> -1]
  ELSE [raised |-> "",
        value |-> CHOOSE i \in MatchingIndexes : \A j \in MatchingIndexes : i <= j]

\* the mapping gives every listed tag the place of its first occurrence
FirstOccurrences ==
  \A t \in DOMAIN call.args.tag_to_priority :
    \A j \in 0..(Len(call.args.tags) - 1) :
      call.args.tags[j + 1] = t => call.args.tag_to_priority[t] <= j

\* C25 as stated: for every wheel, every list of tags and every mapping that
\* gives each listed tag a position it has in the list, support_index_min
\* and find_most_preferred_tag both end as the smallest matching index does
\* (the index, or a failure when no tag matches), and supported is true
\* exactly when a tag matches.
C25_TagLookups ==
  /\ call.op \in {"support_index_min", "find_most_preferred_tag"} =>
       call.result = SmallestMatchingIndex
  /\ call.op = "supported" => (call.result.value <=> SmallestMatchingIndex.raised = "")

\* C25 amended: the same, find_most_preferred_tag being given the mapping
\* from each listed tag to the position of its first occurrence in the list
\* (the only such mapping when the list repeats no tag).
C25_TagLookupsFirst ==
  /\ call.op = "support_index_min" => call.result = SmallestMatchingIndex
  /\ (call.op = "find_most_preferred_tag" /\ FirstOccurrences) =>
       call.result = SmallestMatchingIndex
  /\ call.op = "supported" => (call.result.value <=> SmallestMatchingIndex.raised = "")

\* a lookup by priority that found the second of three places, the tag at
\* the third being a tag of the wheel too
C25_Witness ==
  /\ call.op = "find_most_preferred_tag"
  /\ FirstOccurrences
  /\ Len(call.args.tags) = 3
  /\ MatchingIndexes = {1, 2}
  /\ call.args.tags[2] # call.args.tags[3]
  /\ call.result = [raised |-> "", value |-> 1]

(***************************************************************************)
(* Editable requirements                                                   *)
(***************************************************************************)
\* An editable value is a sequence of atoms: words, and ".", "/", ":", "+",
\* "#", "&" and "egg=" as atoms of their own; a bracketed list of extras is
\* one atom.
ExtrasWords == {"[a]"}
NameWords == {"mypkg"}
SchemeWords == {"file", "FILE", "git", "Git", "bzr", "https", "ssh", "svn"}

\* an optional value: None, or a value
None == [is_none |-> TRUE, value |-> <<>>]
Some(value) == [is_none |-> FALSE, value |-> value]

\* str.lower()
lower(text) ==
  [i \in 1..Len(text) |-> CASE text[i] = "FILE" -> "file"
                            [] text[i] = "Git" -> "git"
                            [] OTHER -> text[i]]

startswith(text, prefix) ==
  Len(text) >= Len(prefix) /\ SubSeq(text, 1, Len(prefix)) = prefix

\* _strip_extras(path): re.match(r"^(.+)(\[[^\]]+\])$", path)
_strip_extras(path) ==
  IF Len(path) > 1 /\ path[Len(path)] \in ExtrasWords
  THEN [path_no_extras |-> SubSeq(path, 1, Len(path) - 1), extras |-> Some(path[Len(path)])]
  ELSE [path_no_extras |-> path, extras |-> None]

\* Requirement("placeholder" + extras.lower()).extras
convert_extras(extras) == IF extras.is_none THEN {} ELSE {extras.value}

\* urllib.parse.urlsplit(url).scheme: the text before the first ":" in lower
\* case when it starts with a letter and holds letters, digits, "+", "-"
\* and "." only, else nothing
url_scheme(url) ==
  LET colons == {i \in 1..Len(url) : url[i] = ":"}
  IN IF colons = {} THEN <<>>
     ELSE LET i == Min(colons)
          IN IF /\ i > 1
                /\ url[1] \in SchemeWords
                /\ \A k \in 1..(i - 1) : url[k] \in SchemeWords \cup {"+", "."}
             THEN lower(SubSeq(url, 1, i - 1))
             ELSE <<>>

\* Link.egg_fragment: re.search(r"[#&]egg=([^&]*)", url), group 1
egg_fragment(url) ==
  LET found == {i \in 2..Len(url) : url[i] = "egg=" /\ url[i - 1] \in {"#", "&"}}
  IN IF found = {} THEN None
     ELSE LET i == Min(found)
              stops == {k \in (i + 1)..Len(url) : url[k] = "&"} \cup {Len(url) + 1}
          IN Some(SubSeq(url, i + 1, Min(stops) - 1))

vcs_all_schemes ==
  { <<"bzr", "+", "http">>, <<"bzr", "+", "https">>, <<"bzr", "+", "ssh">>,
    <<"bzr", "+", "sftp">>, <<"bzr", "+", "ftp">>, <<"bzr", "+", "lp">>,
    <<"bzr", "+", "file">>,
    <<"git", "+", "http">>, <<"git", "+", "https">>, <<"git", "+", "ssh">>,
    <<"git", "+", "git">>, <<"git", "+", "file">>,
    <<"hg", "+", "file">>, <<"hg", "+", "http">>, <<"hg", "+", "https">>,
    <<"hg", "+", "ssh">>, <<"hg", "+", "static-http">>,
    <<"svn", "+", "ssh">>, <<"svn", "+", "http">>, <<"svn", "+", "https">>,
    <<"svn", "+", "svn">>, <<"svn", "+", "file">> }

vcs == <<"ssh", "git", "hg", "bzr", "sftp", "svn">>

\* Link.is_vcs
is_vcs(url) == url_scheme(url) \in vcs_all_schemes

\* _looks_like_path(name), os.path.sep being "/" and os.path.altsep None
_looks_like_path(name) == "/" \in Range(name) \/ startswith(name, <<".">>)

\* the loop over vcs of parse_editable: the url with "<vcs>+" before it when
\* it starts with "<vcs>:" in lower case
with_vcs_prefix(url) ==
  LET matching == {k \in 1..Len(vcs) : startswith(lower(url), <<vcs[k], ":">>)}
  IN IF matching = {} THEN url ELSE <<vcs[Min(matching)], "+">> \o url

\* parse_editable(editable_req): (package_name, url, extras), or the error
parse_editable(editable_req) ==
  LET stripped == _strip_extras(editable_req)
      url_no_extras == stripped.path_no_extras
      url == with_vcs_prefix(editable_req)
  IN IF startswith(lower(url_no_extras), <<"file", ":">>)
        \/ startswith(lower(url_no_extras), <<".">>)
     THEN [raised |-> "", package_name |-> egg_fragment(url_no_extras),
           url |-> url_no_extras, extras |-> convert_extras(stripped.extras)]
     ELSE IF ~is_vcs(url) \/ ~_looks_like_path(url)
     THEN [raised |-> "InstallationError: not a valid editable requirement",
           package_name |-> None, url |-> <<>>, extras |-> {}]
     ELSE IF egg_fragment(url).is_none \/ egg_fragment(url).value = <<>>
     THEN [raised |-> "InstallationError: Could not detect requirement name",
           package_name |-> None, url |-> <<>>, extras |-> {}]
     ELSE [raised |-> "", package_name |-> egg_fragment(url), url |-> url, extras |-> {}]

\* packaging's Requirement(name) for the text of an egg fragment: a name,
\* with extras or without; anything else is an InvalidRequirement
Requirement_valid(name) ==
  /\ name # <<>>
  /\ name[1] \in NameWords
  /\ \A i \in 2..Len(name) : i = 2 /\ name[i] \in ExtrasWords

\* install_req_from_editable(editable_req) through parse_req_from_editable:
\* the InstallRequirement, or the error
install_req_from_editable(editable_req) ==
  Apply(LAMBDA parts :
          IF parts.raised # ""
          THEN [raised |-> parts.raised, req |-> None, link |-> <<>>, extras |-> {},
                is_editable |-> FALSE]
          ELSE IF ~parts.package_name.is_none /\ ~Requirement_valid(parts.package_name.value)
          THEN [raised |-> "InstallationError: Invalid requirement", req |-> None,
                link |-> <<>>, extras |-> {}, is_editable |-> FALSE]
          ELSE [raised |-> "", req |-> parts.package_name, link |-> parts.url,
                extras |-> parts.extras, is_editable |-> TRUE],
        parse_editable(editable_req))

\* the values of -e: a beginning, a path, a fragment and extras
EditableHeads ==
  { <<>>, <<".">>, <<"/">>, <<"file", ":">>, <<"FILE", ":">>, <<"git", ":">>,
    <<"Git", ":">>, <<"bzr", ":">>, <<"https", ":">>, <<"git", "+", "https", ":">>,
    <<"svn", "+", "ssh", ":">> }
EditablePaths == { <<>>, <<"repo">>, <<"/", "/", "example", "/", "repo">>, <<"a", "/", "b">> }
EditableFragments ==
  { <<>>, <<"#", "egg=", "mypkg">>, <<"#", "egg=">>, <<"#", "egg=", "my pkg">>,
    <<"#", "subdirectory=s", "&", "egg=", "mypkg">> }
EditableExtras == { <<>>, <<"[a]">> }

InitEditable ==
  /\ Idle
  /\ format_control = FormatControl({}, {})
  /\ \E head \in EditableHeads : \E path \in EditablePaths :
       \E fragment \in EditableFragments : \E extras \in EditableExtras :
         /\ head \o path \o fragment \o extras # <<>>
         /\ call = [op |-> "", args |-> head \o path \o fragment \o extras,
                    result |-> <<>>]

CallParseEditable ==
  /\ call.op = ""
  /\ call' = [call EXCEPT !.op = "parse_editable", !.result = parse_editable(call.args)]
  /\ UNCHANGED <<fs, include_nested, shared_features, pc, stack, format_control,
                 options, finder, install_requirements, invalid_lines,
                 comment_lines, results, line_opts, log, updates, last_update>>

CallInstallReqFromEditable ==
  /\ call.op = ""
  /\ call' = [call EXCEPT !.op = "install_req_from_editable",
                          !.result = install_req_from_editable(call.args)]
  /\ UNCHANGED <<fs, include_nested, shared_features, pc, stack, format_control,
                 options, finder, install_requirements, invalid_lines,
                 comment_lines, results, line_opts, log, updates, last_update>>

NextEditable == CallParseEditable \/ CallInstallReqFromEditable

SpecEditable == InitEditable /\ [][NextEditable]_vars

(***************************************************************************)
(* C26  a path-like editable value (starts with file: or ".", or contains  *)
(* a path separator) becomes a local editable requirement, named by its    *)
(* egg= fragment if it has one, with no error; any other value gets a VCS  *)
(* prefix when it starts with a bare VCS scheme and must then be a VCS     *)
(* link with an egg= fragment, else construction fails                     *)
(***************************************************************************)
\* the value without its trailing extras
WithoutExtras(value) ==
  IF Len(value) > 1 /\ value[Len(value)] \in ExtrasWords
  THEN SubSeq(value, 1, Len(value) - 1) ELSE value

\* the value has a URL scheme other than file
HasOtherScheme(value) ==
  \E i \in 2..Len(value) :
    /\ value[i] = ":"
    /\ \A k \in 1..(i - 1) : value[k] \in SchemeWords \cup {"+"}
    /\ value[1] \notin {"file", "FILE"}

\* path-like: starts with file: or ".", or is no URL of another scheme and
\* contains a path separator
PathLike(value) ==
  \/ value[1] = "."
  \/ Len(value) >= 2 /\ value[1] \in {"file", "FILE"} /\ value[2] = ":"
  \/ ~HasOtherScheme(value) /\ \E i \in 1..Len(value) : value[i] = "/"

\* the text of the egg= fragment of a value, <<>> without one
EggName(value) ==
  IF \E i \in 2..Len(value) : value[i] = "egg="
  THEN LET i == CHOOSE i \in 2..Len(value) : value[i] = "egg="
       IN SelectSeq(SubSeq(value, i + 1, Len(value)), LAMBDA w : w \in NameWords)
  ELSE <<>>

\* C26: when install_req_from_editable(value) has ended: for a path-like
\* value it built an editable requirement whose link is the value without
\* its extras and whose name is the egg= fragment when there is one; for
\* the example, a git+https URL with #egg=mypkg, it built an editable
\* requirement of that name whose link is the value unchanged; for any
\* other value it built a requirement only if the value, with "<vcs>+"
\* before a bare VCS scheme, is a VCS link with an egg= fragment.
C26_EditableDecision ==
  call.op = "install_req_from_editable" =>
    LET value == call.args
        built == call.result
    IN /\ PathLike(WithoutExtras(value)) =>
            /\ built.raised = ""
            /\ built.is_editable
            /\ built.link = WithoutExtras(value)
            /\ (EggName(value) = <<>> <=> built.req.is_none)
            /\ ~built.req.is_none => built.req.value[1] = EggName(value)[1]
       /\ value = <<"git", "+", "https", ":", "/", "/", "example", "/", "repo",
                    "#", "egg=", "mypkg">> =>
            built = [raised |-> "", req |-> [is_none |-> FALSE, value |-> <<"mypkg">>],
                     link |-> value, extras |-> {}, is_editable |-> TRUE]
       /\ (~PathLike(WithoutExtras(value)) /\ built.raised = "") =>
            /\ \E i \in 1..Len(built.link) : built.link[i] = "egg="
            /\ \E i \in 2..Len(built.link) :
                 /\ built.link[i] = ":"
                 /\ [k \in 1..(i - 1) |-> IF built.link[k] = "Git" THEN "git" ELSE built.link[k]]
                      \in vcs_all_schemes
            /\ built.link \in {value, <<"git", "+">> \o value, <<"svn", "+">> \o value,
                               <<"bzr", "+">> \o value, <<"ssh", "+">> \o value}

(***************************************************************************)
(* The nested file of an option-only line                                  *)
(***************************************************************************)
\* the names of including files and the paths that -r and -c give
IncludingFiles ==
  { RootFile, Path("", TRUE, <<"srv", "root.txt">>),
    Path("https", TRUE, <<"example", "d", "root.txt">>),
    Path("file", TRUE, <<"", "d", "root.txt">>) }

NestedPaths ==
  { Path("", FALSE, <<"a.txt">>), Path("", TRUE, <<"b.txt">>),
    Path("", FALSE, <<"sub", "d.txt">>), Path("https", TRUE, <<"other", "c.txt">>) }

PathLists == UNION {[1..n -> NestedPaths] : n \in 0..MaxItems}

\* the branch of _parse_and_recurse for a line with -r or -c: the file that
\* is parsed next and whether it is a constraints file
nested_file(filename, rs, cs) ==
  IF rs # <<>>
  THEN [filename |-> resolve_nested(filename, rs[1]),
        is_constraint |-> nested_constraint(TRUE, FALSE)]
  ELSE [filename |-> resolve_nested(filename, cs[1]),
        is_constraint |-> nested_constraint(FALSE, FALSE)]

\* an including file and a line of it that is no requirement and holds -r
\* or -c options
InitNested ==
  /\ Idle
  /\ format_control = FormatControl({}, {})
  /\ \E filename \in IncludingFiles : \E rs \in PathLists :
       \E cs \in PathLists : \E nested \in BOOLEAN :
         /\ rs # <<>> \/ cs # <<>>
         /\ call = [op |-> "",
                    args |-> [filename |-> filename, requirements |-> rs,
                              constraints |-> cs, include_nested |-> nested],
                    result |-> <<>>]

\* include_nested: the nested file is parsed in place of the line
FollowNested ==
  /\ call.op = "" /\ call.args.include_nested
  /\ call' = [call EXCEPT !.op = "_parse_and_recurse",
                          !.result = <<nested_file(call.args.filename,
                                                   call.args.requirements,
                                                   call.args.constraints)>>]
  /\ UNCHANGED <<fs, include_nested, shared_features, pc, stack, format_control,
                 options, finder, install_requirements, invalid_lines,
                 comment_lines, results, line_opts, log, updates, last_update>>

\* not include_nested: the line is yielded and no file is followed
YieldLine ==
  /\ call.op = "" /\ ~call.args.include_nested
  /\ call' = [call EXCEPT !.op = "yield", !.result = <<>>]
  /\ UNCHANGED <<fs, include_nested, shared_features, pc, stack, format_control,
                 options, finder, install_requirements, invalid_lines,
                 comment_lines, results, line_opts, log, updates, last_update>>

NextNested == FollowNested \/ YieldLine

SpecNested == InitNested /\ [][NextNested]_vars

(***************************************************************************)
(* C27  the nested path is URL-joined to an including file with a URL      *)
(* scheme, else joined to the directory of the including file when it has  *)
(* no scheme itself, else used unchanged; of several -r and -c paths of a  *)
(* line exactly one, the first -r, else the first -c, is followed          *)
(***************************************************************************)
\* the one path the claim has followed
FirstPath ==
  IF call.args.requirements # <<>> THEN call.args.requirements[1]
  ELSE call.args.constraints[1]

RequirementOrInvalidStep ==
  /\ Len(log') = Len(log) + 1
  /\ log'[Len(log')].outcome \in {"requirement", "invalid"}

\* C28: every step that handles a requirement-bearing line or a line that
\* ends as an invalid-line record leaves finder (index URLs, find-links),
\* format_control (no_binary, only_binary) and options as they were.
C28_OnlyOptionLines ==
  [][RequirementOrInvalidStep =>
       /\ finder' = finder
       /\ format_control' = format_control
       /\ options' = options]_vars

(***************************************************************************)
(* One line handled on its own                                             *)
(***************************************************************************)
\* the leading arguments and the options a line is written from
LineArguments == { <<>>, <<"pkg">> }
LineOptions ==
  { <<"-e", SP, "./x">>, <<"--editable", SP, "./x">>, <<"--install-option", SP, "x">>,
    <<"--global-option", SP, "g">>, <<"--hash", SP, "sha256:d1">>, <<"--pre">> }

\* the line: the argument and the options with a space between them
line_text(argument, opts) ==
  join((IF argument = <<>> THEN <<>> ELSE <<argument>>) \o opts, SP)

\* what parse, handle_line and the construction give for the line: the
\* decoding error, or the ParsedLine and, for a requirement line, the
\* InstallRequirement or the construction error
line_outcome(line) ==
  Apply(LAMBDA decoded :
          IF decoded.error # ""
          THEN [error |-> decoded.error, is_requirement |-> FALSE,
                is_editable |-> FALSE, built |-> <<>>]
          ELSE Apply(LAMBDA parsed :
                       [error |-> "", is_requirement |-> parsed.is_requirement,
                        is_editable |-> parsed.is_editable,
                        built |-> IF parsed.is_requirement
                                  THEN <<install_req_from_parsed_requirement(
                                           handle_requirement_line(parsed))>>
                                  ELSE <<>>],
                     ParsedLine(RequirementLine(line, 1, RootFile),
                                decoded.args_str, decoded.opts, FALSE)),
        parse_line(line, FormatControl({}, {}), <<>>))

InitLine ==
  /\ Idle
  /\ format_control = FormatControl({}, {})
  /\ \E argument \in LineArguments : \E n \in 0..MaxItems :
       \E opts \in [1..n -> LineOptions] :
         /\ line_text(argument, opts) # <<>>
         /\ call = [op |-> "", args |-> [argument |-> argument, opts |-> opts],
                    result |-> <<>>]

\* a line that bears a requirement: handle_requirement_line and the
\* construction of the InstallRequirement
HandleRequirementLine ==
  /\ call.op = ""
  /\ \E outcome \in {line_outcome(line_text(call.args.argument, call.args.opts))} :
       /\ outcome.is_requirement
       /\ call' = [call EXCEPT !.op = "requirement", !.result = outcome]
  /\ UNCHANGED <<fs, include_nested, shared_features, pc, stack, format_control,
                 options, finder, install_requirements, invalid_lines,
                 comment_lines, results, line_opts, log, updates, last_update>>

\* a line of options only
HandleOptionLine ==
  /\ call.op = ""
  /\ \E outcome \in {line_outcome(line_text(call.args.argument, call.args.opts))} :
       /\ ~outcome.is_requirement
       /\ call' = [call EXCEPT !.op = "options", !.result = outcome]
  /\ UNCHANGED <<fs, include_nested, shared_features, pc, stack, format_control,
                 options, finder, install_requirements, invalid_lines,
                 comment_lines, results, line_opts, log, updates, last_update>>

NextLine == HandleRequirementLine \/ HandleOptionLine

SpecLine == InitLine /\ [][NextLine]_vars

(***************************************************************************)
(* C30  a line is editable exactly when its argument span is empty and an  *)
(* editable option is set, and an editable requirement has no install      *)
(* options, global options or hash options whatever the line holds         *)
(***************************************************************************)
\* the line holds -e or --editable
EditableOptionSet ==
  \E i \in 1..Len(call.args.opts) : call.args.opts[i][1] \in {"-e", "--editable"}

\* C30: a handled line is classified editable exactly when it has no
\* leading argument and holds an editable option, and the requirement built
\* from an editable line is editable and has empty install_options,
\* global_options and hash_options.
C30_EditableLines ==
  call.op \in {"requirement", "options"} =>
    /\ call.result.is_editable <=> (call.args.argument = <<>> /\ EditableOptionSet)
    /\ call.result.is_editable =>
         /\ Len(call.result.built) = 1
         /\ call.result.built[1].req.is_editable
         /\ call.result.built[1].req.install_options = <<>>
         /\ call.result.built[1].req.global_options = <<>>
         /\ call.result.built[1].req.hash_options = EmptyHashes

\* an editable line with an --install-option and a --hash was built
C30_Witness ==
  /\ call.op = "requirement"
  /\ call.args = [argument |-> <<>>,
                  opts |-> << <<"--install-option", SP, "x">>, <<"-e", SP, "./x">> >>]
  /\ call.result.is_editable
  /\ ~call.result.built[1].raised
  /\ call.result.built[1].req.install_options = <<>>

\* a line with a leading argument and -e is no editable line and keeps its
\* options
C30_ArgumentWins ==
  /\ call.op = "requirement"
  /\ call.args = [argument |-> <<"pkg">>,
                  opts |-> << <<"-e", SP, "./x">>, <<"--hash", SP, "sha256:d1">> >>]
  /\ ~call.result.is_editable
  /\ call.result.built[1].req.hash_options # EmptyHashes

(***************************************************************************)
(* auto_decode                                                             *)
(***************************************************************************)
\* Bytes are the numbers 0..255 and a text is a sequence of code points.
\* The byte order of the build is little-endian, so codecs.BOM_UTF16 and
\* codecs.BOM_UTF32 are the little-endian marks.
BOM_UTF8 == <<239, 187, 191>>
BOM_UTF16_LE == <<255, 254>>
BOM_UTF16_BE == <<254, 255>>
BOM_UTF16 == BOM_UTF16_LE
BOM_UTF32_LE == <<255, 254, 0, 0>>
BOM_UTF32_BE == <<0, 0, 254, 255>>
BOM_UTF32 == BOM_UTF32_LE

BOMS ==
  << <<BOM_UTF8, "utf-8">>, <<BOM_UTF16, "utf-16">>, <<BOM_UTF16_BE, "utf-16-be">>,
     <<BOM_UTF16_LE, "utf-16-le">>, <<BOM_UTF32, "utf-32">>,
     <<BOM_UTF32_BE, "utf-32-be">>, <<BOM_UTF32_LE, "utf-32-le">> >>

Decoded_text(text) == [raised |-> "", text |-> text]
UnicodeDecodeError == [raised |-> "UnicodeDecodeError", text |-> <<>>]
LookupError == [raised |-> "LookupError", text |-> <<>>]

IsSurrogate(cp) == cp >= 55296 /\ cp <= 57343
IsContinuation(b) == b >= 128 /\ b <= 191

RECURSIVE utf_8_from(_, _, _)
\* bytes.decode("utf-8") from place i on, acc being the text so far: one
\* to three bytes a code point, the shortest form only
utf_8_from(data, i, acc) ==
  IF i > Len(data) THEN Decoded_text(acc)
  ELSE IF data[i] < 128 THEN utf_8_from(data, i + 1, Append(acc, data[i]))
  ELSE IF /\ data[i] >= 194 /\ data[i] <= 223
          /\ i + 1 <= Len(data) /\ IsContinuation(data[i + 1])
  THEN utf_8_from(data, i + 2, Append(acc, (data[i] - 192) * 64 + (data[i + 1] - 128)))
  ELSE IF /\ data[i] >= 224 /\ data[i] <= 239
          /\ i + 2 <= Len(data) /\ IsContinuation(data[i + 1]) /\ IsContinuation(data[i + 2])
          /\ (data[i] - 224) * 4096 + (data[i + 1] - 128) * 64 >= 2048
          /\ ~IsSurrogate((data[i] - 224) * 4096 + (data[i + 1] - 128) * 64)
  THEN utf_8_from(data, i + 3,
                  Append(acc, (data[i] - 224) * 4096 + (data[i + 1] - 128) * 64
                              + (data[i + 2] - 128)))
  ELSE UnicodeDecodeError

\* bytes.decode("utf-16-le") and ("utf-16-be"): two bytes a code unit; the
\* bytes of the model make no surrogate pair
utf_16(data, little) ==
  LET unit(k) == IF little THEN data[2 * k - 1] + 256 * data[2 * k]
                 ELSE data[2 * k] + 256 * data[2 * k - 1]
  IN IF Len(data) % 2 # 0 \/ \E k \in 1..(Len(data) \div 2) : IsSurrogate(unit(k))
     THEN UnicodeDecodeError
     ELSE Decoded_text([k \in 1..(Len(data) \div 2) |-> unit(k)])

\* bytes.decode("utf-32-le") and ("utf-32-be"): four bytes a code point
utf_32(data, little) ==
  LET point(k) ==
        IF little
        THEN data[4 * k - 3] + 256 * data[4 * k - 2] + 65536 * data[4 * k - 1]
             + 16777216 * data[4 * k]
        ELSE data[4 * k] + 256 * data[4 * k - 1] + 65536 * data[4 * k - 2]
             + 16777216 * data[4 * k - 3]
  IN IF Len(data) % 4 # 0
        \/ \E k \in 1..(Len(data) \div 4) : point(k) > 1114111 \/ IsSurrogate(point(k))
     THEN UnicodeDecodeError
     ELSE Decoded_text([k \in 1..(Len(data) \div 4) |-> point(k)])

\* bytes.decode(encoding); "utf-16" and "utf-32" take the byte order from a
\* mark at the start, which they drop, and are little-endian without one
decode(data, encoding) ==
  CASE encoding = "utf-8" -> utf_8_from(data, 1, <<>>)
    [] encoding = "latin-1" -> Decoded_text(data)
    [] encoding = "utf-16-le" -> utf_16(data, TRUE)
    [] encoding = "utf-16-be" -> utf_16(data, FALSE)
    [] encoding = "utf-16" ->
         IF startswith(data, BOM_UTF16_LE) THEN utf_16(SubSeq(data, 3, Len(data)), TRUE)
         ELSE IF startswith(data, BOM_UTF16_BE) THEN utf_16(SubSeq(data, 3, Len(data)), FALSE)
         ELSE utf_16(data, TRUE)
    [] encoding = "utf-32-le" -> utf_32(data, TRUE)
    [] encoding = "utf-32-be" -> utf_32(data, FALSE)
    [] encoding = "utf-32" ->
         IF startswith(data, BOM_UTF32_LE) THEN utf_32(SubSeq(data, 5, Len(data)), TRUE)
         ELSE IF startswith(data, BOM_UTF32_BE) THEN utf_32(SubSeq(data, 5, Len(data)), FALSE)
         ELSE utf_32(data, TRUE)
    [] OTHER -> LookupError

\* the bytes of "coding", "latin-1", "utf-8" and "nope"
coding_bytes == <<99, 111, 100, 105, 110, 103>>
latin_1_bytes == <<108, 97, 116, 105, 110, 45, 49>>
utf_8_bytes == <<117, 116, 102, 45, 56>>
nope_bytes == <<110, 111, 112, 101>>

\* the codec that the name of an encoding gives
codec_of(name) ==
  CASE name = latin_1_bytes -> "latin-1"
    [] name = utf_8_bytes -> "utf-8"
    [] OTHER -> "unknown"

\* \s and [-\w.] of a bytes pattern
IsSpace(b) == b \in 9..13 \cup {32}
IsNameByte(b) == b \in 48..57 \cup 65..90 \cup 97..122 \cup {95, 45, 46}

\* ENCODING_RE.search(line) for coding[:=]\s*([-\w.]+): the places where
\* "coding" and ":" or "=" stand and, after any white space, a name starts
EncodingMatches(line) ==
  {i \in 1..(Len(line) - 6) :
     /\ SubSeq(line, i, i + 5) = coding_bytes
     /\ line[i + 6] \in {58, 61}
     /\ \E j \in (i + 7)..Len(line) :
          /\ IsNameByte(line[j])
          /\ \A k \in (i + 7)..(j - 1) : IsSpace(line[k])}

\* group 1 of the first match: the longest name from its start on
ENCODING_RE_group(line) ==
  LET i == Min(EncodingMatches(line))
      j == Min({k \in (i + 7)..Len(line) : ~IsSpace(line[k])})
      e == Min({k \in j..Len(line) : k = Len(line) \/ ~IsNameByte(line[k + 1])})
  IN SubSeq(line, j, e)

\* the lines of data.split(b"\n")[:2] that start with "#" and hold a match
DeclarationLines(data) ==
  Apply(LAMBDA lines :
          SelectSeq(SubSeq(lines, 1, IF Len(lines) < 2 THEN Len(lines) ELSE 2),
                    LAMBDA line : line # <<>> /\ line[1] = 35 /\ EncodingMatches(line) # {}),
        split(data, 10))

\* auto_decode(data), preferred being locale.getpreferredencoding(False)
auto_decode(data, preferred) ==
  LET marks == {k \in 1..Len(BOMS) : startswith(data, BOMS[k][1])}
  IN IF marks # {}
     THEN decode(SubSeq(data, Len(BOMS[Min(marks)][1]) + 1, Len(data)), BOMS[Min(marks)][2])
     ELSE Apply(LAMBDA declared :
                  IF declared # <<>>
                  THEN decode(data, codec_of(ENCODING_RE_group(declared[1])))
                  ELSE decode(data, preferred),
                DeclarationLines(data))

\* str.encode(encoding) of a text of code points below 256, for the
\* encodings that have a mark
encode(text, encoding) ==
  LET bytes(cp) ==
        CASE encoding = "utf-8" ->
               IF cp < 128 THEN <<cp>> ELSE <<192 + (cp \div 64), 128 + (cp % 64)>>
          [] encoding = "utf-16-le" -> <<cp, 0>>
          [] encoding = "utf-16-be" -> <<0, cp>>
          [] encoding = "utf-32-le" -> <<cp, 0, 0, 0>>
          [] encoding = "utf-32-be" -> <<0, 0, 0, cp>>
  IN Concat([k \in 1..Len(text) |-> bytes(text[k])])

\* the mark of an encoding
mark_of(encoding) ==
  CASE encoding = "utf-8" -> BOM_UTF8
    [] encoding = "utf-16-le" -> BOM_UTF16_LE
    [] encoding = "utf-16-be" -> BOM_UTF16_BE
    [] encoding = "utf-32-le" -> BOM_UTF32_LE
    [] encoding = "utf-32-be" -> BOM_UTF32_BE

MarkedEncodings == {"utf-8", "utf-16-le", "utf-16-be", "utf-32-le", "utf-32-be"}

\* the code points of the texts: p, e with acute accent and the line feed
CodePoints == {112, 233, 10}

\* the lines of the files without mark: "# coding: latin-1",
\* "#coding=latin-1", "#coding:nope", "p # coding: latin-1", "pk", "p" and
\* the byte 233, and "p" and the two bytes of UTF-8 for 233
FileLineBytes ==
  { <<35, 32>> \o coding_bytes \o <<58, 32>> \o latin_1_bytes,
    <<35>> \o coding_bytes \o <<61>> \o latin_1_bytes,
    <<35>> \o coding_bytes \o <<58>> \o nope_bytes,
    <<112, 32, 35, 32>> \o coding_bytes \o <<58, 32>> \o latin_1_bytes,
    <<112, 107>>, <<112, 233>>, <<112, 195, 169>> }

PreferredEncodings == {"utf-8", "latin-1"}

\* the content of a file: a text encoded with a mark before it, or lines of
\* bytes; and the preferred encoding of the platform
InitDecode ==
  /\ Idle
  /\ format_control = FormatControl({}, {})
  /\ \E preferred \in PreferredEncodings :
       \/ \E encoding \in MarkedEncodings : \E n \in 0..MaxItems :
            \E text \in [1..n -> CodePoints] :
              call = [op |-> "",
                      args |-> [data |-> mark_of(encoding) \o encode(text, encoding),
                                preferred |-> preferred],
                      result |-> <<>>]
       \/ \E n \in 1..(MaxLines + 1) : \E lines \in [1..n -> FileLineBytes] :
            call = [op |-> "",
                    args |-> [data |-> join(lines, 10), preferred |-> preferred],
                    result |-> <<>>]

\* auto_decode(data) that ends with a text
AutoDecode ==
  /\ call.op = ""
  /\ \E decoded \in {auto_decode(call.args.data, call.args.preferred)} :
       /\ decoded.raised = ""
       /\ call' = [call EXCEPT !.op = "auto_decode", !.result = decoded]
  /\ UNCHANGED <<fs, include_nested, shared_features, pc, stack, format_control,
                 options, finder, install_requirements, invalid_lines,
                 comment_lines, results, line_opts, log, updates, last_update>>

\* auto_decode(data) that ends with the error of the decoding
AutoDecodeFails ==
  /\ call.op = ""
  /\ \E decoded \in {auto_decode(call.args.data, call.args.preferred)} :
       /\ decoded.raised # ""
       /\ call' = [call EXCEPT !.op = "auto_decode", !.result = decoded]
  /\ UNCHANGED <<fs, include_nested, shared_features, pc, stack, format_control,
                 options, finder, install_requirements, invalid_lines,
                 comment_lines, results, line_opts, log, updates, last_update>>

NextDecode == AutoDecode \/ AutoDecodeFails

SpecDecode == InitDecode /\ [][NextDecode]_vars

(***************************************************************************)
(* C29  auto_decode decodes content that begins with the byte-order mark   *)
(* of UTF-8, UTF-16 or UTF-32 of either endianness with that encoding and  *)
(* without the mark, the UTF-32 little-endian mark meaning UTF-32; else    *)
(* with the encoding declared in the first two lines; else with the        *)
(* platform default                                                        *)
(***************************************************************************)
\* the data begins with the given bytes
BeginsWith(bytes) ==
  /\ Len(call.args.data) >= Len(bytes)
  /\ \A k \in 1..Len(bytes) : call.args.data[k] = bytes[k]

\* the data without its first n bytes
Without(n) == SubSeq(call.args.data, n + 1, Len(call.args.data))

\* the encoding named by a declaration in a comment line among the first two
\* lines, "" when there is none
DeclaredEncoding ==
  LET lines == split(call.args.data, 10)
      comments == {k \in 1..Len(lines) :
                     k <= 2 /\ lines[k] # <<>> /\ lines[k][1] = 35
                     /\ \E i \in 1..(Len(lines[k]) - 5) :
                          SubSeq(lines[k], i, i + 5) = coding_bytes}
  IN IF comments = {} THEN ""
     ELSE LET line == lines[Min(comments)]
          IN IF \E i \in 1..(Len(line) - Len(latin_1_bytes) + 1) :
                  SubSeq(line, i, i + Len(latin_1_bytes) - 1) = latin_1_bytes
             THEN "latin-1"
             ELSE "unknown"

\* C29: auto_decode(data) ends as decoding does: of the data after the mark
\* with UTF-8, UTF-32 little-endian, UTF-32 big-endian, UTF-16 little-endian
\* or UTF-16 big-endian when the data begins with the mark of that encoding;
\* else of the data with the encoding a comment among its first two lines
\* declares; else of the data with the preferred encoding of the platform.
C29_EncodingOrder ==
  call.op = "auto_decode" =>
    call.result =
      IF BeginsWith(<<239, 187, 191>>) THEN decode(Without(3), "utf-8")
      ELSE IF BeginsWith(<<255, 254, 0, 0>>) THEN decode(Without(4), "utf-32-le")
      ELSE IF BeginsWith(<<0, 0, 254, 255>>) THEN decode(Without(4), "utf-32-be")
      ELSE IF BeginsWith(<<255, 254>>) THEN decode(Without(2), "utf-16-le")
      ELSE IF BeginsWith(<<254, 255>>) THEN decode(Without(2), "utf-16-be")
      ELSE IF DeclaredEncoding # "" THEN decode(call.args.data, DeclaredEncoding)
      ELSE decode(call.args.data, call.args.preferred)

====
